---- MODULE Spec2Model ----
(***************************************************************************)
(* A model of RPSAnalyzer (rps_analyzer.py): the per-period percentile     *)
(* ranking, the weighted composite score, the strength levels, the         *)
(* industry rotation analysis, the thread-pool acquisition of stock data   *)
(* and the one-hour cache of the industry entry point.                     *)
(*                                                                         *)
(* Python floats are modelled as exact rationals [n, d] in lowest terms    *)
(* with d > 0; d = 0 stands for the IEEE values a numpy division by zero   *)
(* yields (n = 1: +inf, n = -1: -inf, n = 0: nan).  Dicts that the code    *)
(* iterates in insertion order are sequences of <<key, value>> pairs;      *)
(* dicts built from a Python set (whose order is arbitrary) are functions. *)
(***************************************************************************)
EXTENDS Integers, Sequences, FiniteSets, TLC

VARIABLES
    pc,             \* position of the calling thread
    stock_codes,    \* argument of calculate_stock_rps / _get_stocks_data
    periods,        \* argument of the entry point
    stock_data,     \* the map _get_stocks_data built
    industry_data,  \* the map _get_industry_data built
    results,        \* the value the entry point returned
    futures,        \* the tasks submitted to the ThreadPoolExecutor
    fetched_ok,     \* codes whose provider call returned a usable frame
    provider_calls, \* number of provider calls issued so far
    provider,       \* what the provider may answer for each code
    now,            \* wall clock, in seconds
    rps_cache,      \* self.rps_cache
    last_update,    \* self.last_update
    last_call,      \* the most recent entry-point call and what it did
    computed,       \* per call signature, when it was last computed and the payload
    args,           \* arguments of the helper function being called
    callers,        \* the threads inside calculate_industry_rps
    current_date    \* local variable of _get_fallback_dates, as a day number

vars == <<pc, stock_codes, periods, stock_data, industry_data, results,
          futures, fetched_ok, provider_calls, provider, now, rps_cache,
          last_update, last_call, computed, args, callers, current_date>>

(***************************************************************************)
(* Bounds of the model.                                                    *)
(***************************************************************************)
NumCodes == 3
MaxBatch == 3
MaxCalls == 3
LongCodes == 4
PoolSize == 11
Prices == {1, 2}
PeriodLists == {<<1>>, <<2>>, <<1, 2>>, <<2, 1>>}

(***************************************************************************)
(* Floats.                                                                 *)
(***************************************************************************)
RECURSIVE Gcd(_, _)
Gcd(a, b) == IF b = 0 THEN a ELSE Gcd(b, a % b)

Abs(x) == IF x < 0 THEN -x ELSE x

Rat(n, d) ==
    LET s == IF d < 0 THEN -1 ELSE 1
        g == Gcd(Abs(n), Abs(d))
    IN  [n |-> (s * n) \div g, d |-> (s * d) \div g]

NaN == [n |-> 0, d |-> 0]
Inf == [n |-> 1, d |-> 0]
NegInf == [n |-> -1, d |-> 0]

FromInt(k) == [n |-> k, d |-> 1]

\* a / b on numpy scalars: no exception, inf or nan on a zero divisor
FDiv(a, b) ==
    IF b = 0
    THEN IF a > 0 THEN Inf ELSE IF a < 0 THEN NegInf ELSE NaN
    ELSE Rat(a, b)

RAdd(x, y) == Rat(x.n * y.d + y.n * x.d, x.d * y.d)
RSub(x, y) == Rat(x.n * y.d - y.n * x.d, x.d * y.d)
RMul(x, y) == Rat(x.n * y.n, x.d * y.d)
RDiv(x, y) == Rat(x.n * y.d, x.d * y.n)

\* x < y; false whenever one side is nan
FLt(x, y) == x.n * y.d < y.n * x.d
FGe(x, y) == y.n * x.d <= x.n * y.d /\ x # NaN /\ y # NaN
FGt(x, y) == FLt(y, x)

(***************************************************************************)
(* Insertion-ordered dicts: sequences of <<key, value>> with unique keys.  *)
(***************************************************************************)
Keys(d) == {d[i][1] : i \in DOMAIN d}
Has(d, k) == k \in Keys(d)
Get(d, k) == d[CHOOSE i \in DOMAIN d : d[i][1] = k][2]
Values(d) == {d[i][2] : i \in DOMAIN d}
Values2(s) == {s[i] : i \in DOMAIN s}

\* sorted(items, key=lambda x: x[1], reverse=True): stable, descending on
\* the second component
InsertDesc(t, x) ==
    LET pos == Cardinality({i \in DOMAIN t : ~FLt(t[i][2], x[2])})
    IN  SubSeq(t, 1, pos) \o <<x>> \o SubSeq(t, pos + 1, Len(t))

RECURSIVE SortedDesc(_)
SortedDesc(s) ==
    IF s = <<>> THEN <<>>
    ELSE InsertDesc(SortedDesc(SubSeq(s, 1, Len(s) - 1)), s[Len(s)])

Min(a, b) == IF a < b THEN a ELSE b
Max(a, b) == IF a > b THEN a ELSE b

(***************************************************************************)
(* Program constants.                                                      *)
(***************************************************************************)
\* the Shenwan level-1 index codes of _get_industry_data
industry_codes ==
    <<"801010", "801020", "801030", "801040", "801050", "801080", "801110",
      "801120", "801130", "801140", "801150", "801160", "801170", "801180",
      "801200", "801210", "801230", "801710", "801720", "801730", "801740",
      "801750", "801760", "801770", "801780", "801790", "801880", "801890">>

\* weights of _calculate_composite_rps: 0.4, 0.3, 0.2, 0.1
weights == (5 :> Rat(4, 10)) @@ (10 :> Rat(3, 10)) @@ (20 :> Rat(2, 10))
           @@ (60 :> Rat(1, 10))

cache_timeout == 3600
max_workers == 10
batch_limit == 100
rotation_top == 5
SecondsPerDay == 86400

(***************************************************************************)
(* _calculate_period_rps and _calculate_industry_period_rps.               *)
(***************************************************************************)
\* (df.iloc[-1] - df.iloc[-(period+1)]) / df.iloc[-(period+1)] on the closes
PeriodReturn(df, period) ==
    LET current_price == df[Len(df)]
        period_price == df[Len(df) - period]
    IN  FDiv(current_price - period_price, period_price)

\* a variant that clamps the anchor to the first close of a short frame
PeriodReturns_Clamped(data, period) ==
    [i \in DOMAIN data |->
        <<data[i][1],
          PeriodReturn(data[i][2], Min(period, Len(data[i][2]) - 1))>>]

\* a variant that asks for one close more than the period needs
PeriodReturns_OneMore(data, period) ==
    LET enough == SelectSeq(data, LAMBDA e : Len(e[2]) >= period + 2)
    IN  [i \in DOMAIN enough |->
            <<enough[i][1], PeriodReturn(enough[i][2], period)>>]

\* a close that cannot be read as a number (the close column is missing or
\* holds text): reading it or subtracting it raises
Unreadable == -1

\* the try block of the loop runs through without an exception
Readable(df, period) ==
    df[Len(df)] # Unreadable /\ df[Len(df) - period] # Unreadable

\* period_returns, in the insertion order of the data map; an entity whose
\* computation raises is logged and skipped
PeriodReturns(data, period) ==
    LET enough == SelectSeq(data, LAMBDA e : /\ Len(e[2]) >= period + 1
                                             /\ Readable(e[2], period))
    IN  [i \in DOMAIN enough |->
            <<enough[i][1], PeriodReturn(enough[i][2], period)>>]

\* a variant that ranks from 1: (total - (i + 1)) / total * 100
RpsScore_FromOne(total, i) == RMul(FDiv(total - i - 1, total), FromInt(100))

\* (total - i) / total * 100, i the 0-based position in the sorted returns
RpsScore(total, i) == RMul(FDiv(total - i, total), FromInt(100))

RankScores(sorted_returns) ==
    [i \in DOMAIN sorted_returns |->
        <<sorted_returns[i][1], RpsScore(Len(sorted_returns), i - 1)>>]

CalculatePeriodRps(data, period) ==
    RankScores(SortedDesc(PeriodReturns(data, period)))

CalculateIndustryPeriodRps(data, period) ==
    RankScores(SortedDesc(PeriodReturns(data, period)))

(***************************************************************************)
(* _calculate_composite_rps.  rps_results maps the keys 'rps_<period>' to  *)
(* the per-period score dicts.                                             *)
(***************************************************************************)
RpsKey(period) == "rps_" \o ToString(period)

AllCodes(rps_results) ==
    UNION {Keys(rps_results[k]) : k \in DOMAIN rps_results}

\* a variant without the table: every period weighs 1 / len(periods)
Weight_Uniform(period, ps) == FDiv(1, Len(ps))

\* weights.get(period, 1.0 / len(periods))
Weight(period, ps) ==
    IF period \in DOMAIN weights THEN weights[period] ELSE FDiv(1, Len(ps))

\* the entity has a score for the period: the inner if of the loop
Scored(rps_results, period, code) ==
    /\ RpsKey(period) \in DOMAIN rps_results
    /\ Has(rps_results[RpsKey(period)], code)

\* a variant that zero-fills a missing period: its weight still counts
RECURSIVE Totals_ZeroFill(_, _, _, _)
Totals_ZeroFill(rps_results, ps, code, i) ==
    IF i = 0 THEN <<FromInt(0), FromInt(0)>>
    ELSE LET prev == Totals_ZeroFill(rps_results, ps, code, i - 1)
             weight == Weight(ps[i], ps)
         IN  IF Scored(rps_results, ps[i], code)
             THEN <<RAdd(prev[1],
                         RMul(Get(rps_results[RpsKey(ps[i])], code), weight)),
                    RAdd(prev[2], weight)>>
             ELSE <<prev[1], RAdd(prev[2], weight)>>

\* <<total_score, total_weight>> after the first i requested periods
RECURSIVE Totals(_, _, _, _)
Totals(rps_results, ps, code, i) ==
    IF i = 0 THEN <<FromInt(0), FromInt(0)>>
    ELSE LET prev == Totals(rps_results, ps, code, i - 1)
             weight == Weight(ps[i], ps)
         IN  IF Scored(rps_results, ps[i], code)
             THEN <<RAdd(prev[1],
                         RMul(Get(rps_results[RpsKey(ps[i])], code), weight)),
                    RAdd(prev[2], weight)>>
             ELSE prev

CalculateCompositeRps(rps_results, ps) ==
    LET tot == [code \in AllCodes(rps_results) |->
                    Totals(rps_results, ps, code, Len(ps))]
        scored == {code \in DOMAIN tot : FGt(tot[code][2], FromInt(0))}
    IN  [code \in scored |-> RDiv(tot[code][1], tot[code][2])]

CalculateIndustryCompositeRps(rps_results, ps) ==
    CalculateCompositeRps(rps_results, ps)

(***************************************************************************)
(* _get_single_strength_level and _get_strength_levels.  The labels stand  *)
(* for the source's literals, strongest first.                             *)
(***************************************************************************)
\* a variant with exclusive lower bounds
GetSingleStrengthLevel_Exclusive(rps_score) ==
    IF FGt(rps_score, FromInt(90)) THEN "very strong"
    ELSE IF FGt(rps_score, FromInt(80)) THEN "strong"
    ELSE IF FGt(rps_score, FromInt(60)) THEN "moderately strong"
    ELSE IF FGt(rps_score, FromInt(40)) THEN "neutral"
    ELSE IF FGt(rps_score, FromInt(20)) THEN "weak"
    ELSE "very weak"

\* a variant with five buckets: no score is told apart below 40
GetSingleStrengthLevel_FiveBuckets(rps_score) ==
    IF FGe(rps_score, FromInt(90)) THEN "very strong"
    ELSE IF FGe(rps_score, FromInt(80)) THEN "strong"
    ELSE IF FGe(rps_score, FromInt(60)) THEN "moderately strong"
    ELSE IF FGe(rps_score, FromInt(40)) THEN "neutral"
    ELSE "weak"

GetSingleStrengthLevel(rps_score) ==
    IF FGe(rps_score, FromInt(90)) THEN "very strong"
    ELSE IF FGe(rps_score, FromInt(80)) THEN "strong"
    ELSE IF FGe(rps_score, FromInt(60)) THEN "moderately strong"
    ELSE IF FGe(rps_score, FromInt(40)) THEN "neutral"
    ELSE IF FGe(rps_score, FromInt(20)) THEN "weak"
    ELSE "very weak"

GetStrengthLevels(composite_rps) ==
    [code \in DOMAIN composite_rps |->
        GetSingleStrengthLevel(composite_rps[code])]

(***************************************************************************)
(* _analyze_industry_rotation.                                             *)
(***************************************************************************)
\* a variant that compares every short-period entity, a missing long score
\* counting as 0
RotationOpportunities_All(short_rps, long_rps) ==
    [i \in DOMAIN short_rps |->
        LET long_score == IF Has(long_rps, short_rps[i][1])
                          THEN Get(long_rps, short_rps[i][1])
                          ELSE FromInt(0)
        IN  [industry |-> short_rps[i][1],
             short_rps |-> short_rps[i][2],
             long_rps |-> long_score,
             momentum |-> RSub(short_rps[i][2], long_score)]]

RotationOpportunities(short_rps, long_rps) ==
    LET both == SelectSeq(short_rps, LAMBDA e : Has(long_rps, e[1]))
    IN  [i \in DOMAIN both |->
            [industry |-> both[i][1],
             short_rps |-> both[i][2],
             long_rps |-> Get(long_rps, both[i][1]),
             momentum |-> RSub(both[i][2], Get(long_rps, both[i][1]))]]

\* a variant that leaves the records in the order they were built
SortByMomentum_Unsorted(opps) == opps

\* rotation_opportunities.sort(key=lambda x: x['momentum'], reverse=True)
SortByMomentum(opps) ==
    LET keyed == [i \in DOMAIN opps |-> <<opps[i], opps[i].momentum>>]
        sorted == SortedDesc(keyed)
    IN  [i \in DOMAIN sorted |-> sorted[i][1]]

\* rotation_opportunities[:5]
HotIndustries(sorted) == SubSeq(sorted, 1, Min(rotation_top, Len(sorted)))

\* rotation_opportunities[-5:]
ColdIndustries(sorted) ==
    SubSeq(sorted, Max(1, Len(sorted) - rotation_top + 1), Len(sorted))

RECURSIVE SumMomentum(_, _)
SumMomentum(opps, i) ==
    IF i = 0 THEN FromInt(0)
    ELSE RAdd(SumMomentum(opps, i - 1), opps[i].momentum)

\* np.mean of the momenta; nan for an empty list
AvgMomentum(opps) ==
    IF Len(opps) = 0 THEN NaN
    ELSE RDiv(SumMomentum(opps, Len(opps)), FromInt(Len(opps)))

\* a variant without the mild band
RotationSignal_NoMild(avg_momentum) ==
    IF FGt(avg_momentum, FromInt(10)) THEN "strong_rotation"
    ELSE IF FLt(avg_momentum, FromInt(-5)) THEN "trend_continuation"
    ELSE "neutral"

RotationSignal(avg_momentum) ==
    IF FGt(avg_momentum, FromInt(10)) THEN "strong_rotation"
    ELSE IF FGt(avg_momentum, FromInt(5)) THEN "mild_rotation"
    ELSE IF FLt(avg_momentum, FromInt(-5)) THEN "trend_continuation"
    ELSE "neutral"

AnalyzeIndustryRotation(data, ps) ==
    LET short_rps == CalculateIndustryPeriodRps(data, ps[1])
        long_rps == CalculateIndustryPeriodRps(data, ps[Len(ps)])
        sorted == SortByMomentum(RotationOpportunities(short_rps, long_rps))
    IN  [hot_industries |-> HotIndustries(sorted),
         cold_industries |-> ColdIndustries(sorted),
         rotation_signal |-> RotationSignal(AvgMomentum(sorted))]

(***************************************************************************)
(* The pipelines of the two entry points, after acquisition.               *)
(***************************************************************************)
EmptyDict == <<>>

\* results after the loop over periods
RECURSIVE PeriodResults(_, _, _)
PeriodResults(data, ps, i) ==
    IF i = 0 THEN EmptyDict
    ELSE (RpsKey(ps[i]) :> CalculatePeriodRps(data, ps[i]))
            @@ PeriodResults(data, ps, i - 1)

RECURSIVE IndustryPeriodResults(_, _, _)
IndustryPeriodResults(data, ps, i) ==
    IF i = 0 THEN EmptyDict
    ELSE (RpsKey(ps[i]) :> CalculateIndustryPeriodRps(data, ps[i]))
            @@ IndustryPeriodResults(data, ps, i - 1)

\* calculate_stock_rps from the fetched map on
StockResults(data, ps) ==
    IF data = <<>> THEN EmptyDict
    ELSE LET per_period == PeriodResults(data, ps, Len(ps))
             composite_rps == CalculateCompositeRps(per_period, ps)
         IN  per_period
                @@ ("composite_rps" :> composite_rps)
                @@ ("strength_level" :> GetStrengthLevels(composite_rps))

\* calculate_industry_rps from the fetched map on
IndustryResults(data, ps) ==
    IF data = <<>> THEN EmptyDict
    ELSE LET per_period == IndustryPeriodResults(data, ps, Len(ps))
         IN  per_period
                @@ ("composite_rps" :>
                        CalculateIndustryCompositeRps(per_period, ps))
                @@ ("rotation_analysis" :>
                        AnalyzeIndustryRotation(data, ps))

(***************************************************************************)
(* Inputs: fetched data maps over the first NumCodes codes, in list        *)
(* order, a code whose fetch failed having no entry; every frame holds     *)
(* at least one close and at most one more than the longest period.        *)
(***************************************************************************)
Codes == {industry_codes[i] : i \in 1..NumCodes}

MaxPeriod ==
    CHOOSE p \in UNION {Values2(ps) : ps \in PeriodLists} :
        \A q \in UNION {Values2(ps) : ps \in PeriodLists} : q <= p

SeriesSet == UNION {[1..n -> Prices] : n \in 1..(MaxPeriod + 1)}

ToDataMap(f) ==
    SelectSeq([i \in 1..NumCodes |-> <<industry_codes[i], f[industry_codes[i]]>>],
              LAMBDA e : e[2] # <<>>)

DataMaps == {ToDataMap(f) : f \in [Codes -> SeriesSet \cup {<<>>}]}

NoArgs == <<>>

NoCallers == <<>>

NoCall == [op |-> "none", sig |-> "", n |-> 0, hit |-> FALSE, since |-> -1,
           fetches |-> 0]

\* the state after construction, no call made yet
InitBase ==
    /\ pc = "idle"
    /\ stock_codes = <<>>
    /\ periods = <<>>
    /\ stock_data = <<>>
    /\ industry_data = <<>>
    /\ results = EmptyDict
    /\ futures = <<>>
    /\ fetched_ok = {}
    /\ provider_calls = 0
    /\ provider = <<>>
    /\ now = 0
    /\ rps_cache = EmptyDict
    /\ last_update = EmptyDict
    /\ last_call = NoCall
    /\ computed = EmptyDict
    /\ callers = NoCallers
    /\ current_date = 0
    /\ args = NoArgs

(***************************************************************************)
(* Spec: the two pipelines applied to every fetched data map.  A state of  *)
(* Init is an entry point that has just got its data map back.             *)
(***************************************************************************)
Init ==
    /\ pc = "fetched"
    /\ stock_codes = <<>>
    /\ periods \in PeriodLists
    /\ stock_data \in DataMaps
    /\ industry_data = stock_data
    /\ results = EmptyDict
    /\ futures = <<>>
    /\ fetched_ok = {}
    /\ provider_calls = 0
    /\ provider = <<>>
    /\ now = 0
    /\ rps_cache = EmptyDict
    /\ last_update = EmptyDict
    /\ last_call = NoCall
    /\ computed = EmptyDict
    /\ callers = NoCallers
    /\ current_date = 0
    /\ args = NoArgs

\* calculate_stock_rps from the return of _get_stocks_data on
StockPipeline ==
    /\ pc = "fetched"
    /\ results' = StockResults(stock_data, periods)
    /\ pc' = "stock_done"
    /\ UNCHANGED <<stock_codes, periods, stock_data, industry_data, futures,
                   fetched_ok, provider_calls, provider, now, rps_cache,
                   last_update, last_call, computed>>
    /\ UNCHANGED <<args, callers, current_date>>

\* calculate_industry_rps on a cache miss, from the return of
\* _get_industry_data on (the cache is modelled in SpecCache)
IndustryPipeline ==
    /\ pc = "fetched"
    /\ results' = IndustryResults(industry_data, periods)
    /\ pc' = "industry_done"
    /\ UNCHANGED <<stock_codes, periods, stock_data, industry_data, futures,
                   fetched_ok, provider_calls, provider, now, rps_cache,
                   last_update, last_call, computed>>
    /\ UNCHANGED <<args, callers, current_date>>

Next == StockPipeline \/ IndustryPipeline

Spec == Init /\ [][Next]_vars

(***************************************************************************)
(* SpecLong: the two pipelines on frames long enough for the periods of    *)
(* the weight table, for LongCodes entities.  A frame is given by its      *)
(* closes; only the last one and the anchors of periods 1, 2, 5 and 10     *)
(* are read.                                                               *)
(***************************************************************************)
LongFrames ==
    {<<1, 2>>, <<2, 1>>,
     <<1, 1, 1, 1, 1, 2>>, <<1, 1, 1, 1, 4, 2>>, <<4, 1, 1, 1, 1, 2>>,
     <<1, 1, 1, 1, 1, 1, 1, 1, 1, 1, 2>>}

LongPeriodLists ==
    {<<5>>, <<1, 2>>, <<1, 5>>, <<5, 1>>, <<5, 10>>, <<1, 5, 10>>}

LongDataMap(f) ==
    SelectSeq([i \in 1..LongCodes |-> <<industry_codes[i], f[i]>>],
              LAMBDA e : e[2] # <<>>)

LongDataMaps ==
    {LongDataMap(f) : f \in [1..LongCodes -> LongFrames \cup {<<>>}]}

InitLong ==
    /\ pc = "fetched"
    /\ stock_codes = <<>>
    /\ periods \in LongPeriodLists
    /\ stock_data \in LongDataMaps
    /\ industry_data = stock_data
    /\ results = EmptyDict
    /\ futures = <<>>
    /\ fetched_ok = {}
    /\ provider_calls = 0
    /\ provider = <<>>
    /\ now = 0
    /\ rps_cache = EmptyDict
    /\ last_update = EmptyDict
    /\ last_call = NoCall
    /\ computed = EmptyDict
    /\ callers = NoCallers
    /\ current_date = 0
    /\ args = NoArgs

SpecLong == InitLong /\ [][Next]_vars

(***************************************************************************)
(* SpecZero: the two pipelines for period 1 on frames of two closes, the   *)
(* anchor close of some being 0.  The closes are numpy scalars: dividing   *)
(* by a zero anchor raises nothing and gives inf.  (A frame whose two      *)
(* closes are both 0 gives nan, whose place in sorted() depends on the     *)
(* comparisons the sort happens to make; it is left out.)                  *)
(***************************************************************************)
ZeroFrames == {<<1, 2>>, <<2, 1>>, <<1, 1>>, <<0, 1>>, <<0, 2>>}

ZeroDataMaps == {ToDataMap(f) : f \in [Codes -> ZeroFrames \cup {<<>>}]}

InitZero ==
    /\ pc = "fetched"
    /\ stock_codes = <<>>
    /\ periods = <<1>>
    /\ stock_data \in ZeroDataMaps
    /\ industry_data = stock_data
    /\ results = EmptyDict
    /\ futures = <<>>
    /\ fetched_ok = {}
    /\ provider_calls = 0
    /\ provider = <<>>
    /\ now = 0
    /\ rps_cache = EmptyDict
    /\ last_update = EmptyDict
    /\ last_call = NoCall
    /\ computed = EmptyDict
    /\ callers = NoCallers
    /\ current_date = 0
    /\ args = NoArgs

SpecZero == InitZero /\ [][Next]_vars

(***************************************************************************)
(* _get_stocks_data: one task per code on a ThreadPoolExecutor, collected  *)
(* with as_completed.  A future is [code, state, result]; state is         *)
(* "queued", "running", "finished" (the task returned) or "yielded"        *)
(* (as_completed handed it to the caller); result is the frame's closes in *)
(* date order, or None.                                                    *)
(***************************************************************************)
None == <<>>

\* a batch larger than the pool: codes without a suffix
PoolCodes == [i \in 1..PoolSize |-> "6001" \o ToString(10 + i)]

\* a list one longer than the batch: codes without a suffix
TruncCodes == [i \in 1..(batch_limit + 1) |-> "6002" \o ToString(100 + i)]

\* code.replace('.SZ', '').replace('.SH', '') on the codes of the model
CleanCode ==
    ("000001.SZ" :> "000001") @@ ("600000.SH" :> "600000")
    @@ ("000002.SZ" :> "000002") @@ ("600036.SH" :> "600036")
    @@ ("300750" :> "300750")
    @@ [c \in {PoolCodes[i] : i \in DOMAIN PoolCodes} |-> c]
    @@ [c \in {TruncCodes[i] : i \in DOMAIN TruncCodes} |-> c]

Frame(closes) == [kind |-> "frame", closes |-> closes]

\* what get_single_stock_data returns for an answer of the provider: a
\* non-empty frame with its date column, sorted by date; None for an empty
\* frame, an exception of the provider, or a frame without the date column
TaskResult(answer) == IF answer.kind = "frame" THEN answer.closes ELSE None

\* stock_data[code] = data on an insertion-ordered dict
DictSet(d, k, v) ==
    IF Has(d, k)
    THEN [i \in DOMAIN d |-> IF d[i][1] = k THEN <<k, v>> ELSE d[i]]
    ELSE Append(d, <<k, v>>)

\* a variant without the `if data is not None` test
CollectResult_Unchecked(d, code, data) == DictSet(d, code, data)

\* the body of the as_completed loop
CollectResult(d, code, data) ==
    IF data # None THEN DictSet(d, code, data) ELSE d

\* a variant of the entry points without their try / except
Handled_Reraised(done) == "raised"

\* except Exception: log and return {} -- the call ends normally
Handled(done) == done

Running == {i \in DOMAIN futures : futures[i].state = "running"}

\* a variant that submits the whole list
Batch_Untruncated == stock_codes

\* stock_codes[:100]
Batch == SubSeq(stock_codes, 1, Min(Len(stock_codes), batch_limit))

\* calculate_stock_rps up to the creation of the executor; max(periods)
\* raises on an empty list, which the entry point turns into {}
BeginStockCall ==
    /\ pc = "idle"
    /\ IF periods = <<>>
       THEN pc' = Handled("stock_done")
       ELSE pc' = IF Batch = <<>> THEN "collecting" ELSE "submitting"
    /\ futures' = <<>>
    /\ stock_data' = <<>>
    /\ results' = EmptyDict
    /\ UNCHANGED <<stock_codes, periods, industry_data, fetched_ok,
                   provider_calls, provider, now, rps_cache, last_update,
                   last_call, computed>>
    /\ UNCHANGED <<args, callers, current_date>>

\* executor.submit(get_single_stock_data, code), in list order
Submit ==
    /\ pc = "submitting"
    /\ futures' = Append(futures,
                         [code |-> Batch[Len(futures) + 1],
                          state |-> "queued", result |-> None])
    /\ pc' = IF Len(futures) + 1 = Len(Batch) THEN "collecting"
             ELSE "submitting"
    /\ UNCHANGED <<stock_codes, periods, stock_data, industry_data, results,
                   fetched_ok, provider_calls, provider, now, rps_cache,
                   last_update, last_call, computed>>
    /\ UNCHANGED <<args, callers, current_date>>

\* a variant of the pool that starts a thread for every task
WorkerAvailable_Unbounded == TRUE

\* ThreadPoolExecutor(max_workers=10): a thread is idle, or fewer than
\* max_workers threads exist
WorkerAvailable == Cardinality(Running) < max_workers

\* a worker thread takes the oldest queued task
StartTask(i) ==
    /\ futures[i].state = "queued"
    /\ \A j \in DOMAIN futures : j < i => futures[j].state # "queued"
    /\ WorkerAvailable
    /\ futures' = [futures EXCEPT ![i].state = "running"]
    /\ UNCHANGED <<pc, stock_codes, periods, stock_data, industry_data,
                   results, fetched_ok, provider_calls, provider, now,
                   rps_cache, last_update, last_call, computed>>
    /\ UNCHANGED <<args, callers, current_date>>

\* get_single_stock_data: the provider call and what is made of its answer
FinishTask(i) ==
    /\ futures[i].state = "running"
    /\ \E answer \in provider[CleanCode[futures[i].code]] :
          /\ futures' = [futures EXCEPT ![i].state = "finished",
                                        ![i].result = TaskResult(answer)]
          /\ fetched_ok' = IF answer.kind = "frame"
                           THEN fetched_ok \cup {futures[i].code}
                           ELSE fetched_ok
    /\ provider_calls' = provider_calls + 1
    /\ UNCHANGED <<pc, stock_codes, periods, stock_data, industry_data,
                   results, provider, now, rps_cache, last_update, last_call,
                   computed>>
    /\ UNCHANGED <<args, callers, current_date>>

\* one iteration of `for future in as_completed(futures)`
Collect(i) ==
    /\ pc = "collecting"
    /\ futures[i].state = "finished"
    /\ futures' = [futures EXCEPT ![i].state = "yielded"]
    /\ stock_data' = CollectResult(stock_data, futures[i].code,
                                   futures[i].result)
    /\ UNCHANGED <<pc, stock_codes, periods, industry_data, results,
                   fetched_ok, provider_calls, provider, now, rps_cache,
                   last_update, last_call, computed>>
    /\ UNCHANGED <<args, callers, current_date>>

\* a variant that leaves the loop while tasks are pending
AllCollected_Early == TRUE

\* as_completed(futures) is exhausted: every future has been yielded
AllCollected == \A i \in DOMAIN futures : futures[i].state = "yielded"

\* the loop and the with block end: return stock_data
ReturnData ==
    /\ pc = "collecting"
    /\ AllCollected
    /\ pc' = "fetched"
    /\ UNCHANGED <<stock_codes, periods, stock_data, industry_data, results,
                   futures, fetched_ok, provider_calls, provider, now,
                   rps_cache, last_update, last_call, computed>>
    /\ UNCHANGED <<args, callers, current_date>>

NextFetch ==
    \/ BeginStockCall
    \/ Submit
    \/ \E i \in DOMAIN futures : StartTask(i)
    \/ \E i \in DOMAIN futures : FinishTask(i)
    \/ \E i \in DOMAIN futures : Collect(i)
    \/ ReturnData
    \/ StockPipeline

(***************************************************************************)
(* SpecFetch: calculate_stock_rps on lists of up to MaxBatch codes, the    *)
(* provider free to answer each call with a frame, an empty frame, an      *)
(* exception or a frame without its date column.                           *)
(***************************************************************************)
StockUniverse == <<"000001.SZ", "600000.SH", "300750", "000002.SZ", "600036.SH">>

StockLists ==
    {SubSeq(StockUniverse, 1, n) : n \in 0..MaxBatch}
        \cup {<<StockUniverse[1], StockUniverse[1]>>}

FetchFrames == {<<1, 1, 1>>, <<1, 1, 2>>}

Failures ==
    {[kind |-> k, closes |-> <<>>] : k \in {"empty", "error", "malformed"}}

InitFetch ==
    /\ pc = "idle"
    /\ stock_codes \in StockLists
    /\ periods \in {<<1>>, <<1, 2>>}
    /\ stock_data = <<>>
    /\ industry_data = <<>>
    /\ results = EmptyDict
    /\ futures = <<>>
    /\ fetched_ok = {}
    /\ provider_calls = 0
    /\ provider = [c \in {CleanCode[StockUniverse[i]] : i \in DOMAIN StockUniverse}
                    |-> {Frame(f) : f \in FetchFrames} \cup Failures]
    /\ now = 0
    /\ rps_cache = EmptyDict
    /\ last_update = EmptyDict
    /\ last_call = NoCall
    /\ computed = EmptyDict
    /\ callers = NoCallers
    /\ current_date = 0
    /\ args = NoArgs

SpecFetch == InitFetch /\ [][NextFetch]_vars

\* the calling thread and the pool's worker threads keep running, and every
\* provider call returns or raises: a submission, a start of a queued task,
\* an end of a running task, an iteration of the as_completed loop or the
\* return that stays possible is eventually taken
FetchProgress ==
    /\ WF_vars(Submit)
    /\ WF_vars(\E i \in DOMAIN futures : StartTask(i))
    /\ WF_vars(\E i \in DOMAIN futures : FinishTask(i))
    /\ WF_vars(\E i \in DOMAIN futures : Collect(i))
    /\ WF_vars(ReturnData)

\* SpecFetch with progress of the threads
SpecFetchLive == InitFetch /\ [][NextFetch]_vars /\ FetchProgress

(***************************************************************************)
(* SpecTrunc: SpecFetch with, in addition, a list of batch_limit + 1       *)
(* codes.  For that list every third provider call raises and the others   *)
(* return a frame of one close, and one schedule is followed: a worker     *)
(* runs the tasks one after the other once they are all submitted, and    *)
(* as_completed yields them in the order they finished.  The shorter       *)
(* lists run under every schedule.                                         *)
(***************************************************************************)
TruncAnswers(i) ==
    IF i % 3 = 0 THEN {[kind |-> "error", closes |-> <<>>]}
    ELSE {Frame(<<1>>)}

\* the schedule followed for the long list
Serial ==
    Len(stock_codes) > MaxBatch =>
        /\ Cardinality({i \in DOMAIN futures' : futures'[i].state = "running"}) <= 1
        /\ \A i \in DOMAIN futures :
              /\ (futures[i].state = "queued" /\ futures'[i].state = "running")
                    => /\ pc = "collecting"
                       /\ \A j \in DOMAIN futures :
                             j < i => futures[j].state = "yielded"
              /\ (futures[i].state = "finished" /\ futures'[i].state = "yielded")
                    => \A j \in DOMAIN futures :
                          j < i => futures[j].state # "finished"

InitTrunc ==
    /\ pc = "idle"
    /\ stock_codes \in StockLists \cup {TruncCodes}
    /\ periods = <<1>>
    /\ stock_data = <<>>
    /\ industry_data = <<>>
    /\ results = EmptyDict
    /\ futures = <<>>
    /\ fetched_ok = {}
    /\ provider_calls = 0
    /\ provider =
          [c \in {CleanCode[StockUniverse[i]] : i \in DOMAIN StockUniverse}
              |-> {Frame(f) : f \in FetchFrames} \cup Failures]
          @@ [c \in {TruncCodes[i] : i \in DOMAIN TruncCodes}
              |-> TruncAnswers(CHOOSE i \in DOMAIN TruncCodes : TruncCodes[i] = c)]
    /\ now = 0
    /\ rps_cache = EmptyDict
    /\ last_update = EmptyDict
    /\ last_call = NoCall
    /\ computed = EmptyDict
    /\ callers = NoCallers
    /\ current_date = 0
    /\ args = NoArgs

NextTrunc ==
    \/ BeginStockCall
    \/ Submit
    \/ \E i \in DOMAIN futures : StartTask(i) /\ Serial
    \/ \E i \in DOMAIN futures : FinishTask(i) /\ Serial
    \/ \E i \in DOMAIN futures : Collect(i) /\ Serial
    \/ ReturnData
    \/ StockPipeline

SpecTrunc == InitTrunc /\ [][NextTrunc]_vars

(***************************************************************************)
(* SpecPool: calculate_stock_rps on PoolSize codes, more than the pool has *)
(* workers.  Every provider call fails, so that the data map stays empty   *)
(* and only the scheduling of the tasks varies.                            *)
(***************************************************************************)
InitPool ==
    /\ pc = "idle"
    /\ stock_codes = PoolCodes
    /\ periods = <<1>>
    /\ stock_data = <<>>
    /\ industry_data = <<>>
    /\ results = EmptyDict
    /\ futures = <<>>
    /\ fetched_ok = {}
    /\ provider_calls = 0
    /\ provider = [c \in {PoolCodes[i] : i \in DOMAIN PoolCodes}
                    |-> {[kind |-> "error", closes |-> <<>>]}]
    /\ now = 0
    /\ rps_cache = EmptyDict
    /\ last_update = EmptyDict
    /\ last_call = NoCall
    /\ computed = EmptyDict
    /\ callers = NoCallers
    /\ current_date = 0
    /\ args = NoArgs

SpecPool == InitPool /\ [][NextFetch]_vars

(***************************************************************************)
(* SpecE2E: calculate_stock_rps(codes, [5]) for five codes whose frames    *)
(* hold 60 closes, 100 throughout except the last, so that the 5-day       *)
(* returns are 0.10, 0.05, 0.02, -0.01, -0.05 in list order.               *)
(***************************************************************************)
E2ELast == <<110, 105, 102, 99, 95>>

E2EFrame(k) == [i \in 1..60 |-> IF i = 60 THEN E2ELast[k] ELSE 100]

InitE2E ==
    /\ pc = "idle"
    /\ stock_codes = StockUniverse
    /\ periods = <<5>>
    /\ stock_data = <<>>
    /\ industry_data = <<>>
    /\ results = EmptyDict
    /\ futures = <<>>
    /\ fetched_ok = {}
    /\ provider_calls = 0
    /\ provider = [c \in {CleanCode[StockUniverse[i]] : i \in DOMAIN StockUniverse}
                    |-> {Frame(E2EFrame(CHOOSE k \in DOMAIN StockUniverse :
                                            CleanCode[StockUniverse[k]] = c))}]
    /\ now = 0
    /\ rps_cache = EmptyDict
    /\ last_update = EmptyDict
    /\ last_call = NoCall
    /\ computed = EmptyDict
    /\ callers = NoCallers
    /\ current_date = 0
    /\ args = NoArgs

SpecE2E == InitE2E /\ [][NextFetch]_vars

(***************************************************************************)
(* SpecCache: calls of the two entry points on one analyzer while the      *)
(* clock advances.  A call is one step; the clock does not move during it. *)
(* last_call and computed are bookkeeping of the model: last_call says     *)
(* what the latest call did, computed[sig] when a call with signature sig  *)
(* last ran its pipeline and what it returned.                             *)
(***************************************************************************)
\* '-'.join(map(str, periods))
RECURSIVE JoinPeriods(_, _)
JoinPeriods(ps, i) ==
    IF i = 0 THEN ""
    ELSE IF i = 1 THEN ToString(ps[1])
    ELSE JoinPeriods(ps, i - 1) \o "-" \o ToString(ps[i])

CacheKey(ps) == "industry_rps_" \o JoinPeriods(ps, Len(ps))

\* timedelta.seconds: the seconds field of the normalised difference, the
\* days field being dropped
TimedeltaSeconds(delta) == delta % SecondsPerDay

\* a variant with the comparison turned round
IsCacheValid_Inverted(cache_key) ==
    IF cache_key \notin DOMAIN rps_cache \/ cache_key \notin DOMAIN last_update
    THEN FALSE
    ELSE TimedeltaSeconds(now - last_update[cache_key]) > cache_timeout

IsCacheValid(cache_key) ==
    IF cache_key \notin DOMAIN rps_cache \/ cache_key \notin DOMAIN last_update
    THEN FALSE
    ELSE TimedeltaSeconds(now - last_update[cache_key]) < cache_timeout

TimeGrid == {0, 1800, 3600, 86400, 88200}

CachePeriodLists == {<<1>>, <<1, 2>>}

CacheStockCodes == <<"000001.SZ", "600000.SH">>

\* what _get_industry_data returns here: nothing, or frames for two codes
IndustryAnswers ==
    {<<>>} \cup {<<<<industry_codes[1], f>>, <<industry_codes[2], g>>>> :
                    <<f, g>> \in {p \in FetchFrames \X FetchFrames :
                                      p[1] # p[2]}}

\* what _get_stocks_data returns here
StockAnswers(codes) ==
    {<<>>} \cup {<<<<codes[1], f>>, <<codes[2], g>>>> :
                    <<f, g>> \in {p \in FetchFrames \X FetchFrames :
                                      p[1] # p[2]}}

IndustrySig(ps) == "industry:" \o JoinPeriods(ps, Len(ps))

RECURSIVE JoinCodes(_, _)
JoinCodes(codes, i) ==
    IF i = 0 THEN "" ELSE JoinCodes(codes, i - 1) \o "," \o codes[i]

StockSig(codes, ps) ==
    "stock:" \o JoinCodes(codes, Len(codes)) \o ":" \o JoinPeriods(ps, Len(ps))

\* seconds since a call with this signature last computed, -1 if none did
Since(sig) == IF sig \in DOMAIN computed THEN now - computed[sig].at ELSE -1

\* the wall clock advances
Tick ==
    /\ \E t \in TimeGrid : t > now /\ now' = t
    /\ UNCHANGED <<pc, stock_codes, periods, stock_data, industry_data,
                   results, futures, fetched_ok, provider_calls, provider,
                   rps_cache, last_update, last_call, computed>>
    /\ UNCHANGED <<args, callers, current_date>>

\* a variant that records no creation time
StampNow_Skipped(stamps, cache_key) == stamps

\* self.last_update[cache_key] = datetime.now()
StampNow(stamps, cache_key) == (cache_key :> now) @@ stamps

\* calculate_industry_rps(ps)
CalculateIndustryRps(ps) ==
    /\ pc = "idle"
    /\ last_call.n < MaxCalls
    /\ periods' = ps
    /\ LET cache_key == CacheKey(ps)
           call == [op |-> "industry", sig |-> IndustrySig(ps),
                    n |-> last_call.n + 1, hit |-> FALSE,
                    since |-> Since(IndustrySig(ps)),
                    fetches |-> Len(industry_codes)]
       IN  IF IsCacheValid(cache_key)
           THEN /\ results' = rps_cache[cache_key]
                /\ last_call' = [call EXCEPT !.hit = TRUE, !.fetches = 0]
                /\ UNCHANGED <<industry_data, provider_calls, rps_cache,
                               last_update, computed>>
           ELSE \E data \in IndustryAnswers :
                /\ industry_data' = data
                /\ provider_calls' = provider_calls + Len(industry_codes)
                /\ last_call' = call
                /\ results' = IndustryResults(data, ps)
                /\ IF data = <<>>
                   THEN UNCHANGED <<rps_cache, last_update, computed>>
                   ELSE /\ rps_cache' =
                             (cache_key :> IndustryResults(data, ps))
                                @@ rps_cache
                        /\ last_update' = StampNow(last_update, cache_key)
                        /\ computed' =
                             (IndustrySig(ps) :>
                                [at |-> now,
                                 payload |-> IndustryResults(data, ps)])
                                @@ computed
    /\ UNCHANGED <<pc, stock_codes, stock_data, futures, fetched_ok, provider,
                   now>>
    /\ UNCHANGED <<args, callers, current_date>>

\* a variant that keeps the stock results in rps_cache for cache_timeout
CalculateStockRps_Cached(codes, ps) ==
    /\ pc = "idle"
    /\ last_call.n < MaxCalls
    /\ stock_codes' = codes
    /\ periods' = ps
    /\ LET sig == StockSig(codes, ps)
           batch == SubSeq(codes, 1, Min(Len(codes), batch_limit))
           call == [op |-> "stock", sig |-> sig, n |-> last_call.n + 1,
                    hit |-> FALSE, since |-> Since(sig),
                    fetches |-> Len(batch)]
       IN  IF sig \in DOMAIN rps_cache
                /\ now - computed[sig].at < cache_timeout
           THEN /\ results' = rps_cache[sig]
                /\ last_call' = [call EXCEPT !.hit = TRUE, !.fetches = 0]
                /\ UNCHANGED <<stock_data, provider_calls, rps_cache,
                               computed>>
           ELSE \E data \in StockAnswers(codes) :
                /\ stock_data' = data
                /\ provider_calls' = provider_calls + Len(batch)
                /\ results' = StockResults(data, ps)
                /\ last_call' = call
                /\ rps_cache' = (sig :> StockResults(data, ps)) @@ rps_cache
                /\ computed' =
                     (sig :> [at |-> now, payload |-> StockResults(data, ps)])
                        @@ computed
    /\ UNCHANGED <<pc, industry_data, futures, fetched_ok, provider, now,
                   last_update>>
    /\ UNCHANGED <<args, callers, current_date>>

\* calculate_stock_rps(codes, ps), the pool of _get_stocks_data having
\* issued one provider call per code of the batch
CalculateStockRps(codes, ps) ==
    /\ pc = "idle"
    /\ last_call.n < MaxCalls
    /\ stock_codes' = codes
    /\ periods' = ps
    /\ LET sig == StockSig(codes, ps)
           batch == SubSeq(codes, 1, Min(Len(codes), batch_limit))
       IN  \E data \in StockAnswers(codes) :
                /\ stock_data' = data
                /\ provider_calls' = provider_calls + Len(batch)
                /\ results' = StockResults(data, ps)
                /\ last_call' = [op |-> "stock", sig |-> sig,
                                 n |-> last_call.n + 1, hit |-> FALSE,
                                 since |-> Since(sig), fetches |-> Len(batch)]
                /\ computed' =
                     (sig :> [at |-> now, payload |-> StockResults(data, ps)])
                        @@ computed
    /\ UNCHANGED <<pc, industry_data, futures, fetched_ok, provider, now,
                   rps_cache, last_update>>
    /\ UNCHANGED <<args, callers, current_date>>

NextCache ==
    \/ Tick
    \/ \E ps \in CachePeriodLists : CalculateIndustryRps(ps)
    \/ \E ps \in CachePeriodLists : CalculateStockRps(CacheStockCodes, ps)

SpecCache == InitBase /\ [][NextCache]_vars

(***************************************************************************)
(* get_rps_ranking and _get_strength_levels as functions of a score map    *)
(* the caller passes (SpecRank).  The map is an insertion-ordered dict.    *)
(***************************************************************************)
\* list[:n]; a negative n counts from the end
Slice(list, n) ==
    IF n >= 0 THEN SubSeq(list, 1, Min(n, Len(list)))
    ELSE SubSeq(list, 1, Max(0, Len(list) + n))

\* ranking.sort(key=lambda x: x['rps_score'], reverse=True)
SortByScore(ranking) ==
    LET keyed == [i \in DOMAIN ranking |-> <<ranking[i], ranking[i].rps_score>>]
        sorted == SortedDesc(keyed)
    IN  [i \in DOMAIN sorted |-> sorted[i][1]]

\* the items as appended, before the sort
RankingItems(rps_data) ==
    [i \in DOMAIN rps_data |->
        [code |-> rps_data[i][1], rps_score |-> rps_data[i][2], rank |-> 0]]

\* a variant that truncates to top_n before sorting
GetRpsRanking_SliceFirst(rps_data, top_n) ==
    LET head == SortByScore(Slice(RankingItems(rps_data), top_n))
    IN  [i \in DOMAIN head |->
            [code |-> head[i].code,
             rps_score |-> head[i].rps_score,
             rank |-> i,
             strength_level |-> GetSingleStrengthLevel(head[i].rps_score)]]

\* get_rps_ranking: i is the 1-based position, so rank = i is the source's
\* enumerate index + 1
GetRpsRanking(rps_data, top_n) ==
    LET head == Slice(SortByScore(RankingItems(rps_data)), top_n)
    IN  [i \in DOMAIN head |->
            [code |-> head[i].code,
             rps_score |-> head[i].rps_score,
             rank |-> i,
             strength_level |-> GetSingleStrengthLevel(head[i].rps_score)]]

\* the score map as _get_strength_levels reads it
AsFunction(d) == [k \in Keys(d) |-> Get(d, k)]

RankCodes == {"000001", "000002", "600000"}

ScoreGrid == {FromInt(k) : k \in {95, 90, 85, 80, 60, 40, 20, 10}}

TopNs == {-1, 0, 1, 2, 4}

\* the sequences of distinct codes
RECURSIVE CodeOrders(_)
CodeOrders(S) ==
    {<<>>} \cup UNION {{<<c>> \o t : t \in CodeOrders(S \ {c})} : c \in S}

ScoreMaps ==
    UNION {{[i \in DOMAIN o |-> <<o[i], f[i]>>] : f \in [DOMAIN o -> ScoreGrid]} :
              o \in CodeOrders(RankCodes)}

InitRank ==
    /\ pc = "idle"
    /\ stock_codes = <<>>
    /\ periods = <<>>
    /\ stock_data = <<>>
    /\ industry_data = <<>>
    /\ results = EmptyDict
    /\ futures = <<>>
    /\ fetched_ok = {}
    /\ provider_calls = 0
    /\ provider = <<>>
    /\ now = 0
    /\ rps_cache = EmptyDict
    /\ last_update = EmptyDict
    /\ last_call = NoCall
    /\ computed = EmptyDict
    /\ callers = NoCallers
    /\ current_date = 0
    /\ args \in {[rps_data |-> d, top_n |-> n] : d \in ScoreMaps, n \in TopNs}

\* get_rps_ranking(rps_data, top_n)
GetRpsRankingCall ==
    /\ pc = "idle"
    /\ results' = GetRpsRanking(args.rps_data, args.top_n)
    /\ pc' = "ranked"
    /\ UNCHANGED <<stock_codes, periods, stock_data, industry_data, futures,
                   fetched_ok, provider_calls, provider, now, rps_cache,
                   last_update, last_call, computed, args, callers,
                   current_date>>

\* _get_strength_levels(rps_data)
GetStrengthLevelsCall ==
    /\ pc = "idle"
    /\ results' = GetStrengthLevels(AsFunction(args.rps_data))
    /\ pc' = "levelled"
    /\ UNCHANGED <<stock_codes, periods, stock_data, industry_data, futures,
                   fetched_ok, provider_calls, provider, now, rps_cache,
                   last_update, last_call, computed, args, callers,
                   current_date>>

NextRank == GetRpsRankingCall \/ GetStrengthLevelsCall

SpecRank == InitRank /\ [][NextRank]_vars

(***************************************************************************)
(* SpecEntry: one call of a public entry point, with any periods list      *)
(* (the empty one included) and a provider that answers each code with a   *)
(* frame, a frame whose closes cannot be read, an empty frame, a frame     *)
(* without its date column or an exception.  calculate_stock_rps runs on   *)
(* the pool; calculate_industry_rps, whose loop is sequential, is one      *)
(* step, the codes after the first MaxBatch all failing.                   *)
(***************************************************************************)
UnreadableFrame == <<Unreadable, Unreadable, Unreadable>>

EntryAnswers ==
    {Frame(f) : f \in FetchFrames \cup {UnreadableFrame}} \cup Failures

\* industry_data after the loop of _get_industry_data, answer[i] being the
\* provider's answer for industry_codes[i]
GetIndustryData(answer) ==
    LET got == [i \in DOMAIN answer |->
                   <<industry_codes[i], TaskResult(answer[i])>>]
    IN  SelectSeq(got, LAMBDA e : e[2] # None)

\* calculate_industry_rps(periods) on an analyzer whose cache is empty
IndustryCall ==
    /\ pc = "idle"
    /\ IF periods = <<>>
       THEN /\ pc' = Handled("industry_done")
            /\ results' = EmptyDict
            /\ UNCHANGED <<industry_data, fetched_ok, provider_calls,
                           rps_cache, last_update>>
       ELSE \E answer \in [1..MaxBatch -> EntryAnswers] :
            /\ industry_data' = GetIndustryData(answer)
            /\ fetched_ok' = Keys(GetIndustryData(answer))
            /\ provider_calls' = provider_calls + Len(industry_codes)
            /\ results' = IndustryResults(GetIndustryData(answer), periods)
            /\ pc' = "industry_done"
            /\ IF GetIndustryData(answer) = <<>>
               THEN UNCHANGED <<rps_cache, last_update>>
               ELSE /\ rps_cache' =
                         (CacheKey(periods) :>
                             IndustryResults(GetIndustryData(answer), periods))
                            @@ rps_cache
                    /\ last_update' = (CacheKey(periods) :> now) @@ last_update
    /\ UNCHANGED <<stock_codes, periods, stock_data, futures, provider, now,
                   last_call, computed, args, callers,
                   current_date>>

EntryArgs ==
    {[rps_data |-> <<<<"000001", FromInt(40)>>, <<"000002", FromInt(90)>>>>,
      top_n |-> n] : n \in {-1, 1}}

InitEntry ==
    /\ pc = "idle"
    /\ stock_codes \in StockLists
    /\ periods \in {<<>>, <<1>>, <<1, 2>>}
    /\ stock_data = <<>>
    /\ industry_data = <<>>
    /\ results = EmptyDict
    /\ futures = <<>>
    /\ fetched_ok = {}
    /\ provider_calls = 0
    /\ provider = [c \in {CleanCode[StockUniverse[i]] : i \in DOMAIN StockUniverse}
                    |-> EntryAnswers]
    /\ now = 0
    /\ rps_cache = EmptyDict
    /\ last_update = EmptyDict
    /\ last_call = NoCall
    /\ computed = EmptyDict
    /\ callers = NoCallers
    /\ current_date = 0
    /\ args \in EntryArgs

NextEntry == NextFetch \/ IndustryCall \/ GetRpsRankingCall

SpecEntry == InitEntry /\ [][NextEntry]_vars

(***************************************************************************)
(* ZhangTingAnalyzer._get_cache_key (SpecKey).  kwargs is the sequence of  *)
(* <<name, value>> pairs in the order the caller wrote them.               *)
(***************************************************************************)
\* position of the parameter names in Python's string order
NameRank == ("date" :> 1) @@ ("days" :> 2) @@ ("limit" :> 3)

\* sorted(kwargs.items()): the names are distinct, so the values are never
\* compared
InsertByName(t, x) ==
    LET pos == Cardinality({i \in DOMAIN t : NameRank[t[i][1]] <= NameRank[x[1]]})
    IN  SubSeq(t, 1, pos) \o <<x>> \o SubSeq(t, pos + 1, Len(t))

RECURSIVE SortedByName(_)
SortedByName(kw) ==
    IF kw = <<>> THEN <<>>
    ELSE InsertByName(SortedByName(SubSeq(kw, 1, Len(kw) - 1)), kw[Len(kw)])

\* "_".join(key_parts) after the parts f"{k}={v}" of the first i items
RECURSIVE JoinParts(_, _, _)
JoinParts(func_name, items, i) ==
    IF i = 0 THEN func_name
    ELSE JoinParts(func_name, items, i - 1)
            \o "_" \o items[i][1] \o "=" \o ToString(items[i][2])

\* a variant that takes the items in the caller's order
GetCacheKey_CallerOrder(func_name, kwargs) ==
    JoinParts(func_name, kwargs, Len(kwargs))

GetCacheKey(func_name, kwargs) ==
    JoinParts(func_name, SortedByName(kwargs), Len(kwargs))

FuncNames == {"trading_dates", "zhangting_data"}

KwargValues == {1, 2}

RECURSIVE KwargLists(_)
KwargLists(names) ==
    {<<>>} \cup UNION {{<<<<k, v>>>> \o t : v \in KwargValues,
                                          t \in KwargLists(names \ {k})} :
                          k \in names}

InitKey ==
    /\ pc = "idle"
    /\ stock_codes = <<>>
    /\ periods = <<>>
    /\ stock_data = <<>>
    /\ industry_data = <<>>
    /\ results = EmptyDict
    /\ futures = <<>>
    /\ fetched_ok = {}
    /\ provider_calls = 0
    /\ provider = <<>>
    /\ now = 0
    /\ rps_cache = EmptyDict
    /\ last_update = EmptyDict
    /\ last_call = NoCall
    /\ computed = EmptyDict
    /\ callers = NoCallers
    /\ current_date = 0
    /\ args \in {[func_name |-> f, kwargs |-> kw] :
                    f \in FuncNames, kw \in KwargLists(DOMAIN NameRank)}

\* self._get_cache_key(func_name, **kwargs)
GetCacheKeyCall ==
    /\ pc = "idle"
    /\ results' = GetCacheKey(args.func_name, args.kwargs)
    /\ pc' = "keyed"
    /\ UNCHANGED <<stock_codes, periods, stock_data, industry_data, futures,
                   fetched_ok, provider_calls, provider, now, rps_cache,
                   last_update, last_call, computed, args, callers,
                   current_date>>

NextKey == GetCacheKeyCall

SpecKey == InitKey /\ [][NextKey]_vars

(***************************************************************************)
(* SpecRace: calculate_industry_rps called from two threads on one         *)
(* RPSAnalyzer.  Each call is a sequence of steps between which the other  *)
(* thread may run: the validity check, the return of the cached payload,   *)
(* the fetch with the computation, the write of rps_cache[cache_key] and   *)
(* the write of last_update[cache_key].  The code takes no lock.  Entries  *)
(* are never deleted, so the reads of _is_cache_valid give what one read   *)
(* of both maps at the moment of its last read gives.  callers[t] is the   *)
(* call of thread t with its local variables; computed records, for each   *)
(* key, the call that wrote the payload and the call that wrote the time.  *)
(***************************************************************************)
MaxRaceCalls == 3

Threads == {"A", "B"}

IdleCaller == [pc |-> "idle", periods |-> <<>>, id |-> 0, saw |-> 0,
               data |-> <<>>, payload |-> EmptyDict, wrote |-> 0,
               ret |-> EmptyDict]

NoWrites == [writes |-> 0, misses |-> 0, payload_by |-> EmptyDict,
             time_by |-> EmptyDict]

\* a variant in which an existing payload is kept
CacheStore_KeepFirst(cache, cache_key, payload) ==
    IF cache_key \in DOMAIN cache THEN cache ELSE (cache_key :> payload) @@ cache

\* self.rps_cache[cache_key] = results
CacheStore(cache, cache_key, payload) == (cache_key :> payload) @@ cache

InitRace ==
    /\ pc = "idle"
    /\ stock_codes = <<>>
    /\ periods = <<>>
    /\ stock_data = <<>>
    /\ industry_data = <<>>
    /\ results = EmptyDict
    /\ futures = <<>>
    /\ fetched_ok = {}
    /\ provider_calls = 0
    /\ provider = <<>>
    /\ now = 0
    /\ rps_cache = EmptyDict
    /\ last_update = EmptyDict
    /\ last_call = NoCall
    /\ computed = NoWrites
    /\ callers = [t \in Threads |-> IdleCaller]
    /\ current_date = 0
    /\ args = NoArgs

\* thread t calls calculate_industry_rps(ps)
EnterCall(t, ps) ==
    /\ callers[t].pc \in {"idle", "returned"}
    /\ last_call.n < MaxRaceCalls
    /\ last_call' = [last_call EXCEPT !.n = @ + 1]
    /\ callers' = [callers EXCEPT ![t] =
                      [IdleCaller EXCEPT !.pc = "check", !.periods = ps,
                                         !.id = last_call.n + 1]]
    /\ UNCHANGED <<pc, stock_codes, periods, stock_data, industry_data,
                   results, futures, fetched_ok, provider_calls, provider,
                   now, rps_cache, last_update, computed>>
    /\ UNCHANGED <<args, current_date>>

\* if self._is_cache_valid(cache_key):
CheckValid(t) ==
    /\ callers[t].pc = "check"
    /\ IF IsCacheValid(CacheKey(callers[t].periods))
       THEN /\ callers' = [callers EXCEPT ![t].pc = "hit",
                                          ![t].saw = computed.writes]
            /\ UNCHANGED computed
       ELSE /\ callers' = [callers EXCEPT ![t].pc = "fetch",
                                          ![t].saw = computed.writes]
            /\ computed' = [computed EXCEPT !.misses = @ + 1]
    /\ UNCHANGED <<pc, stock_codes, periods, stock_data, industry_data,
                   results, futures, fetched_ok, provider_calls, provider,
                   now, rps_cache, last_update, last_call>>
    /\ UNCHANGED <<args, current_date>>

\* return self.rps_cache[cache_key]
ReturnCached(t) ==
    /\ callers[t].pc = "hit"
    /\ callers' = [callers EXCEPT
                      ![t].pc = "returned",
                      ![t].ret = rps_cache[CacheKey(callers[t].periods)]]
    /\ UNCHANGED <<pc, stock_codes, periods, stock_data, industry_data,
                   results, futures, fetched_ok, provider_calls, provider,
                   now, rps_cache, last_update, last_call, computed>>
    /\ UNCHANGED <<args, current_date>>

\* _get_industry_data, `if not industry_data: return {}`, and the
\* computation of the thread's own results
FetchAndCompute(t) ==
    /\ callers[t].pc = "fetch"
    /\ \E data \in IndustryAnswers :
          callers' = [callers EXCEPT
                         ![t].data = data,
                         ![t].payload = IndustryResults(data,
                                                        callers[t].periods),
                         ![t].pc = IF data = <<>> THEN "returned"
                                   ELSE "write_cache"]
    /\ provider_calls' = provider_calls + Len(industry_codes)
    /\ UNCHANGED <<pc, stock_codes, periods, stock_data, industry_data,
                   results, futures, fetched_ok, provider, now, rps_cache,
                   last_update, last_call, computed>>
    /\ UNCHANGED <<args, current_date>>

\* self.rps_cache[cache_key] = results
WriteCache(t) ==
    /\ callers[t].pc = "write_cache"
    /\ LET cache_key == CacheKey(callers[t].periods)
       IN  /\ rps_cache' = CacheStore(rps_cache, cache_key,
                                      callers[t].payload)
           /\ computed' = [computed EXCEPT
                              !.writes = @ + 1,
                              !.payload_by = (cache_key :> callers[t].id) @@ @]
    /\ callers' = [callers EXCEPT ![t].pc = "write_time",
                                  ![t].wrote = computed.writes + 1]
    /\ UNCHANGED <<pc, stock_codes, periods, stock_data, industry_data,
                   results, futures, fetched_ok, provider_calls, provider,
                   now, last_update, last_call>>
    /\ UNCHANGED <<args, current_date>>

\* self.last_update[cache_key] = datetime.now(); return results
WriteTime(t) ==
    /\ callers[t].pc = "write_time"
    /\ LET cache_key == CacheKey(callers[t].periods)
       IN  /\ last_update' = StampNow(last_update, cache_key)
           /\ computed' = [computed EXCEPT
                              !.time_by = (cache_key :> callers[t].id) @@ @]
    /\ callers' = [callers EXCEPT ![t].pc = "returned",
                                  ![t].ret = callers[t].payload]
    /\ UNCHANGED <<pc, stock_codes, periods, stock_data, industry_data,
                   results, futures, fetched_ok, provider_calls, provider,
                   now, rps_cache, last_call>>
    /\ UNCHANGED <<args, current_date>>

RaceGrid == {0, 1800, 3600}

\* the wall clock advances while the threads run
RaceTick ==
    /\ \E t \in RaceGrid : t > now /\ now' = t
    /\ UNCHANGED <<pc, stock_codes, periods, stock_data, industry_data,
                   results, futures, fetched_ok, provider_calls, provider,
                   rps_cache, last_update, last_call, computed>>
    /\ UNCHANGED <<args, callers, current_date>>

NextRace ==
    \/ RaceTick
    \/ \E t \in Threads, ps \in CachePeriodLists : EnterCall(t, ps)
    \/ \E t \in Threads : CheckValid(t)
    \/ \E t \in Threads : ReturnCached(t)
    \/ \E t \in Threads : FetchAndCompute(t)
    \/ \E t \in Threads : WriteCache(t)
    \/ \E t \in Threads : WriteTime(t)

SpecRace == InitRace /\ [][NextRace]_vars

(***************************************************************************)
(* IEEE 754 binary64, the arithmetic of Python floats, for the places      *)
(* where the last bit of a result matters.  A finite non-zero float is     *)
(* (-1)^neg * m * 2^e with m a natural of MantBits bits.  Naturals of that *)
(* size are sequences of limbs in base 2^LimbBits, least significant       *)
(* first, without leading zero limbs.  Every operation is computed exactly *)
(* and rounded to nearest, ties to even.  Exponents stay far from the      *)
(* overflow and subnormal ranges in the computations modelled here.  The   *)
(* operations are functions, so that they are applied to values.           *)
(***************************************************************************)
MantBits == 53

LimbBits == 13

Base == 2^LimbBits

Limbs == Seq(Nat)

Doubles == [neg : BOOLEAN, m : Limbs, e : Int]

BLimb(a, i) == IF i \in DOMAIN a THEN a[i] ELSE 0

BNorm[a \in Limbs] ==
    LET nz == {i \in DOMAIN a : a[i] # 0}
    IN  IF nz = {} THEN <<>>
        ELSE SubSeq(a, 1, CHOOSE i \in nz : \A j \in nz : j <= i)

\* the limbs from the i-th on, with the carry c coming in
BCarry[a \in Limbs, i \in Nat, c \in Nat] ==
    IF i > Len(a)
    THEN IF c = 0 THEN <<>> ELSE <<c % Base>> \o BCarry[a, i, c \div Base]
    ELSE <<(a[i] + c) % Base>> \o BCarry[a, i + 1, (a[i] + c) \div Base]

BReduce[a \in Limbs] == BNorm[BCarry[a, 1, 0]]

BFromInt[k \in Nat] == BReduce[<<k>>]

BAdd[a \in Limbs, b \in Limbs] ==
    BReduce[[i \in 1..Max(Len(a), Len(b)) |-> BLimb(a, i) + BLimb(b, i)]]

\* a - b for a >= b: the limbs from the i-th on, with the borrow br
BBorrow[a \in Limbs, b \in Limbs, i \in Nat, br \in {0, 1}] ==
    IF i > Len(a) THEN <<>>
    ELSE LET d == a[i] - BLimb(b, i) - br
         IN  <<IF d < 0 THEN d + Base ELSE d>>
                \o BBorrow[a, b, i + 1, IF d < 0 THEN 1 ELSE 0]

BSub[a \in Limbs, b \in Limbs] == BNorm[BBorrow[a, b, 1, 0]]

\* the sum of a_i * b_j over i + j = k + 1
BConv[a \in Limbs, b \in Limbs, k \in Nat, i \in Nat] ==
    IF i = 0 THEN 0
    ELSE BLimb(a, i) * BLimb(b, k + 1 - i) + BConv[a, b, k, i - 1]

BMul[a \in Limbs, b \in Limbs] ==
    IF a = <<>> \/ b = <<>> THEN <<>>
    ELSE BReduce[[k \in 1..(Len(a) + Len(b) - 1) |-> BConv[a, b, k, k]]]

\* -1, 0, 1 as a < b, a = b, a > b
BCmp[a \in Limbs, b \in Limbs] ==
    IF Len(a) # Len(b) THEN (IF Len(a) < Len(b) THEN -1 ELSE 1)
    ELSE LET d == {i \in DOMAIN a : a[i] # b[i]}
         IN  IF d = {} THEN 0
             ELSE LET t == CHOOSE i \in d : \A j \in d : j <= i
                  IN  IF a[t] < b[t] THEN -1 ELSE 1

\* a * 2^k
BShl[a \in Limbs, k \in Nat] ==
    IF a = <<>> THEN <<>>
    ELSE [i \in 1..(k \div LimbBits) |-> 0]
            \o BReduce[[i \in DOMAIN a |-> a[i] * 2^(k % LimbBits)]]

\* a \div 2^k
BShr[a \in Limbs, k \in Nat] ==
    LET r == k % LimbBits
        rest == SubSeq(a, k \div LimbBits + 1, Len(a))
    IN  BNorm[[i \in DOMAIN rest |->
                 (rest[i] \div 2^r)
                    + (BLimb(rest, i + 1) % 2^r) * 2^(LimbBits - r)]]

\* bit k of a, bit 0 the least significant
BBit[a \in Limbs, k \in Nat] ==
    (BLimb(a, k \div LimbBits + 1) \div 2^(k % LimbBits)) % 2

\* a % 2^k # 0
BLowNonzero[a \in Limbs, k \in Nat] ==
    \/ \E i \in 1..Min(k \div LimbBits, Len(a)) : a[i] # 0
    \/ BLimb(a, k \div LimbBits + 1) % 2^(k % LimbBits) # 0

\* the number of bits of a
BLen[a \in Limbs] ==
    IF a = <<>> THEN 0
    ELSE (Len(a) - 1) * LimbBits
            + (CHOOSE n \in 1..LimbBits :
                  2^(n - 1) <= a[Len(a)] /\ a[Len(a)] < 2^n)

DZero == [neg |-> FALSE, m |-> <<>>, e |-> 0]

\* the float nearest to (-1)^neg * (v + s) * 2^e, where 0 < s < 1 when
\* sticky and s = 0 otherwise; v has more than MantBits bits when sticky
DRound[neg \in BOOLEAN, v \in Limbs, e \in Int, sticky \in BOOLEAN] ==
    LET t == BLen[v] - MantBits
    IN  IF v = <<>> THEN DZero
        ELSE IF t <= 0 THEN [neg |-> neg, m |-> BShl[v, -t], e |-> e + t]
        ELSE LET q == BShr[v, t]
                 half == BBit[v, t - 1] = 1
                 below == BLowNonzero[v, t - 1] \/ sticky
                 up == half /\ (below \/ BBit[q, 0] = 1)
                 m == IF up THEN BAdd[q, <<1>>] ELSE q
             IN  IF BLen[m] > MantBits
                 THEN [neg |-> neg, m |-> BShr[m, 1], e |-> e + t + 1]
                 ELSE [neg |-> neg, m |-> m, e |-> e + t]

\* float(k) for an int k
DFromInt[k \in Int] == DRound[k < 0, BFromInt[Abs(k)], 0, FALSE]

DNeg[x \in Doubles] == IF x.m = <<>> THEN x ELSE [x EXCEPT !.neg = ~x.neg]

\* x * y
DMul[x \in Doubles, y \in Doubles] ==
    IF x.m = <<>> \/ y.m = <<>> THEN DZero
    ELSE DRound[x.neg # y.neg, BMul[x.m, y.m], x.e + y.e, FALSE]

\* <<quotient, remainder>> of r * 2^n by d, for r < d, given the quotient
\* bits q found so far
DivBits[q \in Limbs, r \in Limbs, d \in Limbs, n \in Nat] ==
    IF n = 0 THEN <<q, r>>
    ELSE IF BCmp[BShl[r, 1], d] >= 0
    THEN DivBits[BAdd[BShl[q, 1], <<1>>], BSub[BShl[r, 1], d], d, n - 1]
    ELSE DivBits[BShl[q, 1], BShl[r, 1], d, n - 1]

\* x / y for y # 0
DDiv[x \in Doubles, y \in Doubles] ==
    IF x.m = <<>> THEN DZero
    ELSE LET first == BCmp[x.m, y.m] >= 0
             qr == DivBits[IF first THEN <<1>> ELSE <<>>,
                           IF first THEN BSub[x.m, y.m] ELSE x.m,
                           y.m, MantBits + 2]
         IN  DRound[x.neg # y.neg, qr[1], x.e - y.e - (MantBits + 2),
                    qr[2] # <<>>]

\* hi + lo for floats other than 0 with hi.e >= lo.e
DAddOrdered[hi \in Doubles, lo \in Doubles] ==
    IF hi.e - lo.e > MantBits + 2
    THEN DRound[hi.neg,
                IF hi.neg = lo.neg THEN BShl[hi.m, 3]
                ELSE BSub[BShl[hi.m, 3], <<1>>],
                hi.e - 3, TRUE]
    ELSE LET a == BShl[hi.m, hi.e - lo.e]
         IN  IF hi.neg = lo.neg
             THEN DRound[hi.neg, BAdd[a, lo.m], lo.e, FALSE]
             ELSE IF BCmp[a, lo.m] = 0 THEN DZero
             ELSE IF BCmp[a, lo.m] > 0
             THEN DRound[hi.neg, BSub[a, lo.m], lo.e, FALSE]
             ELSE DRound[lo.neg, BSub[lo.m, a], lo.e, FALSE]

\* x + y
DAdd[x \in Doubles, y \in Doubles] ==
    IF x.m = <<>> THEN y
    ELSE IF y.m = <<>> THEN x
    ELSE IF x.e >= y.e THEN DAddOrdered[x, y]
    ELSE DAddOrdered[y, x]

\* x - y
DSub[x \in Doubles, y \in Doubles] == DAdd[x, DNeg[y]]

DSign(x) == IF x.m = <<>> THEN 0 ELSE IF x.neg THEN -1 ELSE 1

\* -1, 0, 1 as x < y, x = y, x > y
DCmp[x \in Doubles, y \in Doubles] ==
    IF DSign(x) # DSign(y) THEN (IF DSign(x) < DSign(y) THEN -1 ELSE 1)
    ELSE IF DSign(x) = 0 THEN 0
    ELSE DSign(x) * (IF x.e # y.e THEN (IF x.e < y.e THEN -1 ELSE 1)
                     ELSE BCmp[x.m, y.m])

DLt(x, y) == DCmp[x, y] < 0
DGt(x, y) == DCmp[x, y] > 0
DLe(x, y) == DCmp[x, y] <= 0

(***************************************************************************)
(* SpecFloat: the two pipelines with the percentiles, the weights, the     *)
(* composites and the momenta computed in binary64, as the program         *)
(* computes them.  The order of the returns is taken from the exact        *)
(* returns: the closes are small integers, for which the float returns are *)
(* ordered as the exact ones.  The steps are functions on the sets of the  *)
(* values they take, so that each step is computed once from the value of  *)
(* the step before.                                                        *)
(***************************************************************************)
\* the data maps, the lists of returns, the percentile maps, the result
\* dicts of the per-period loop and the rotation records
DataMaps64 == Seq(STRING \X Seq(Nat))
Returns64 == Seq(STRING \X [n : Int, d : Int])
RpsMaps64 == Seq(STRING \X Doubles)
Records64 ==
    [industry : STRING, short_rps : Doubles, long_rps : Doubles,
     momentum : Doubles]

\* the float nearest to the fraction r (a literal such as 0.4, or a / b)
ToDouble(r) == DDiv[DFromInt[r.n], DFromInt[r.d]]

\* (total - i) / total * 100
RpsScore64[total \in Nat, i \in Nat] ==
    DMul[DDiv[DFromInt[total - i], DFromInt[total]], DFromInt[100]]

RankScores64[sorted_returns \in Returns64] ==
    [i \in DOMAIN sorted_returns |->
        <<sorted_returns[i][1], RpsScore64[Len(sorted_returns), i - 1]>>]

\* SortedDesc on a list of returns
SortedReturns64[s \in Returns64] ==
    IF s = <<>> THEN <<>>
    ELSE LET t == SortedReturns64[SubSeq(s, 1, Len(s) - 1)]
         IN  InsertDesc(t, s[Len(s)])

CalculatePeriodRps64[data \in DataMaps64, period \in Nat] ==
    RankScores64[SortedReturns64[PeriodReturns(data, period)]]

\* the percentile maps of the requested periods, in their order
PeriodMaps64[data \in DataMaps64, ps \in Seq(Nat)] ==
    [i \in DOMAIN ps |-> CalculatePeriodRps64[data, ps[i]]]

\* results[f"rps_{period}"] = period_rps, for each requested period
PeriodResults64(maps, ps) ==
    [key \in {RpsKey(ps[i]) : i \in DOMAIN ps} |->
        maps[CHOOSE i \in DOMAIN ps : RpsKey(ps[i]) = key]]

\* the floats 0.4, 0.3, 0.2, 0.1 of the weights table
weights64 == [period \in DOMAIN weights |-> ToDouble(weights[period])]

\* weights.get(period, 1.0 / len(periods))
Weight64(period, ps) ==
    IF period \in DOMAIN weights64 THEN weights64[period]
    ELSE DDiv[DFromInt[1], DFromInt[Len(ps)]]

\* <<total_score, total_weight>> after the first i requested periods, for
\* the percentile maps of the requested periods in their order
Totals64[maps \in Seq(RpsMaps64), ps \in Seq(Nat), code \in STRING, i \in Nat] ==
    IF i = 0 THEN <<DZero, DZero>>
    ELSE IF Has(maps[i], code)
    THEN <<DAdd[Totals64[maps, ps, code, i - 1][1],
                DMul[Get(maps[i], code), Weight64(ps[i], ps)]],
           DAdd[Totals64[maps, ps, code, i - 1][2], Weight64(ps[i], ps)]>>
    ELSE Totals64[maps, ps, code, i - 1]

\* a variant that returns total_score without the division
Composite64_Undivided(tot) == tot[1]

\* total_score / total_weight
Composite64(tot) == DDiv[tot[1], tot[2]]

CalculateCompositeRps64[maps \in Seq(RpsMaps64), ps \in Seq(Nat)] ==
    LET all_codes == UNION {Keys(maps[i]) : i \in DOMAIN maps}
        scored == {code \in all_codes :
                      DGt(Totals64[maps, ps, code, Len(ps)][2], DZero)}
    IN  [code \in scored |-> Composite64(Totals64[maps, ps, code, Len(ps)])]

GetSingleStrengthLevel64[rps_score \in Doubles] ==
    IF ~DLt(rps_score, DFromInt[90]) THEN "very strong"
    ELSE IF ~DLt(rps_score, DFromInt[80]) THEN "strong"
    ELSE IF ~DLt(rps_score, DFromInt[60]) THEN "moderately strong"
    ELSE IF ~DLt(rps_score, DFromInt[40]) THEN "neutral"
    ELSE IF ~DLt(rps_score, DFromInt[20]) THEN "weak"
    ELSE "very weak"

GetStrengthLevels64(composite_rps) ==
    [code \in DOMAIN composite_rps |->
        GetSingleStrengthLevel64[composite_rps[code]]]

\* a variant that divides the two percentiles
Momentum64_Ratio(short, long) == DDiv[short, long]

\* short_rps[industry] - long_rps[industry]
Momentum64(short, long) == DSub[short, long]

RotationOpportunities64[short_rps \in RpsMaps64, long_rps \in RpsMaps64] ==
    LET both == SelectSeq(short_rps, LAMBDA e : Has(long_rps, e[1]))
    IN  [i \in DOMAIN both |->
            [industry |-> both[i][1],
             short_rps |-> both[i][2],
             long_rps |-> Get(long_rps, both[i][1]),
             momentum |-> Momentum64(both[i][2],
                                     Get(long_rps, both[i][1]))]]

InsertByMomentum64[t \in Seq(Records64), x \in Records64] ==
    LET pos == Cardinality({i \in DOMAIN t : ~DLt(t[i].momentum, x.momentum)})
    IN  SubSeq(t, 1, pos) \o <<x>> \o SubSeq(t, pos + 1, Len(t))

\* rotation_opportunities.sort(key=lambda x: x['momentum'], reverse=True)
SortByMomentum64[opps \in Seq(Records64)] ==
    IF opps = <<>> THEN <<>>
    ELSE InsertByMomentum64[SortByMomentum64[SubSeq(opps, 1, Len(opps) - 1)],
                            opps[Len(opps)]]

\* the sum of np.mean over fewer than 8 floats: added one after the other
SumMomentum64[opps \in Seq(Records64), i \in Nat] ==
    IF i = 0 THEN DZero
    ELSE DAdd[SumMomentum64[opps, i - 1], opps[i].momentum]

\* np.mean of the momenta of a non-empty list
AvgMomentum64[opps \in Seq(Records64)] ==
    DDiv[SumMomentum64[opps, Len(opps)], DFromInt[Len(opps)]]

\* the if/elif chain; np.mean([]) is nan, for which every test is false
RotationSignal64[opps \in Seq(Records64)] ==
    IF Len(opps) = 0 THEN "neutral"
    ELSE IF DGt(AvgMomentum64[opps], DFromInt[10]) THEN "strong_rotation"
    ELSE IF DGt(AvgMomentum64[opps], DFromInt[5]) THEN "mild_rotation"
    ELSE IF DLt(AvgMomentum64[opps], DFromInt[-5]) THEN "trend_continuation"
    ELSE "neutral"

\* the returned dict, from the sorted records on
RotationAnalysis64[sorted \in Seq(Records64)] ==
    [hot_industries |-> HotIndustries(sorted),
     cold_industries |-> ColdIndustries(sorted),
     rotation_signal |-> RotationSignal64[sorted]]

AnalyzeIndustryRotation64(data, ps) ==
    RotationAnalysis64[
        SortByMomentum64[
            RotationOpportunities64[CalculatePeriodRps64[data, ps[1]],
                                    CalculatePeriodRps64[data, ps[Len(ps)]]]]]

StockDict64[maps \in Seq(RpsMaps64), ps \in Seq(Nat)] ==
    PeriodResults64(maps, ps)
        @@ ("composite_rps" :> CalculateCompositeRps64[maps, ps])
        @@ ("strength_level" :>
                GetStrengthLevels64(CalculateCompositeRps64[maps, ps]))

StockResults64(data, ps) ==
    IF data = <<>> THEN EmptyDict ELSE StockDict64[PeriodMaps64[data, ps], ps]

IndustryDict64[maps \in Seq(RpsMaps64), ps \in Seq(Nat)] ==
    PeriodResults64(maps, ps)
        @@ ("composite_rps" :> CalculateCompositeRps64[maps, ps])

IndustryResults64(data, ps) ==
    IF data = <<>> THEN EmptyDict
    ELSE IndustryDict64[PeriodMaps64[data, ps], ps]
            @@ ("rotation_analysis" :> AnalyzeIndustryRotation64(data, ps))

FloatCodes == 6

FloatPeriodLists == {<<1>>, <<1, 2>>, <<2, 1>>, <<1, 2, 3>>, <<5, 10, 20>>}

\* the orders of FloatCodes entities for the two-day return
FloatOrders ==
    {p \in [1..FloatCodes -> 1..FloatCodes] :
        /\ \A i, j \in 1..FloatCodes : p[i] = p[j] => i = j
        /\ <<p[1], p[2], p[3]>> \in {<<6, 5, 4>>, <<1, 2, 3>>}}

\* entity i is the i-th by its one-day return and the p[i]-th by its
\* two-day return
OrderedDataMap(p) ==
    [i \in 1..FloatCodes |-> <<industry_codes[i], <<p[i], i, FloatCodes + 1>>>>]

FloatFrames == {<<>>, <<1, 2>>, <<1, 1, 2>>, <<1, 2, 3, 4>>, <<4, 3, 2, 1>>}

\* twenty-one closes, enough for the periods of the weights table
LongFrame == [i \in 1..21 |-> i]

FloatDataMaps ==
    {OrderedDataMap(p) : p \in FloatOrders}
        \cup {<<<<industry_codes[1], LongFrame>>>>}
        \cup {SelectSeq(<<<<industry_codes[1], f>>, <<industry_codes[2], g>>>>,
                        LAMBDA e : e[2] # <<>>) :
                 f \in FloatFrames, g \in FloatFrames}

InitFloat ==
    /\ pc = "fetched"
    /\ stock_codes = <<>>
    /\ periods \in FloatPeriodLists
    /\ stock_data \in FloatDataMaps
    /\ industry_data = stock_data
    /\ results = EmptyDict
    /\ futures = <<>>
    /\ fetched_ok = {}
    /\ provider_calls = 0
    /\ provider = <<>>
    /\ now = 0
    /\ rps_cache = EmptyDict
    /\ last_update = EmptyDict
    /\ last_call = NoCall
    /\ computed = EmptyDict
    /\ callers = NoCallers
    /\ current_date = 0
    /\ args = NoArgs

\* calculate_stock_rps from the return of _get_stocks_data on
StockPipeline64 ==
    /\ pc = "fetched"
    /\ results' = StockResults64(stock_data, periods)
    /\ pc' = "stock_done"
    /\ UNCHANGED <<stock_codes, periods, stock_data, industry_data, futures,
                   fetched_ok, provider_calls, provider, now, rps_cache,
                   last_update, last_call, computed>>
    /\ UNCHANGED <<args, callers, current_date>>

\* calculate_industry_rps on a cache miss, from the return of
\* _get_industry_data on
IndustryPipeline64 ==
    /\ pc = "fetched"
    /\ results' = IndustryResults64(industry_data, periods)
    /\ pc' = "industry_done"
    /\ UNCHANGED <<stock_codes, periods, stock_data, industry_data, futures,
                   fetched_ok, provider_calls, provider, now, rps_cache,
                   last_update, last_call, computed>>
    /\ UNCHANGED <<args, callers, current_date>>

NextFloat == StockPipeline64 \/ IndustryPipeline64

SpecFloat == InitFloat /\ [][NextFloat]_vars

(***************************************************************************)
(* ZhangTingAnalyzer._get_fallback_dates (SpecDates), one statement of the *)
(* two loops per step.  A date is its proleptic Gregorian ordinal          *)
(* (date.toordinal()), and the list dates is kept in results.              *)
(***************************************************************************)
MaxDays == 7

\* date(2000, 1, 1).toordinal(), a Saturday
FirstToday == 730120

\* the values of datetime.now().date(): a week of consecutive days
Todays == FirstToday..(FirstToday + 6)

\* date.weekday(): 0 is Monday, 6 is Sunday
Weekday(date) == (date + 6) % 7

\* a variant of the test of the second loop that lets Saturdays in
IsWeekday_WithSaturday(date) == Weekday(date) < 6

\* current_date.weekday() < 5
IsWeekday(date) == Weekday(date) < 5

\* today, dates = [] and current_date = today, for each days and today
InitDates ==
    /\ pc = "skip_weekend"
    /\ args \in [days : 0..MaxDays, today : Todays]
    /\ current_date = args.today
    /\ results = <<>>
    /\ stock_codes = <<>>
    /\ periods = <<>>
    /\ stock_data = <<>>
    /\ industry_data = <<>>
    /\ futures = <<>>
    /\ fetched_ok = {}
    /\ provider_calls = 0
    /\ provider = <<>>
    /\ now = 0
    /\ rps_cache = EmptyDict
    /\ last_update = EmptyDict
    /\ last_call = NoCall
    /\ computed = EmptyDict
    /\ callers = NoCallers

\* while current_date.weekday() >= 5: current_date -= timedelta(days=1)
SkipWeekend ==
    /\ pc = "skip_weekend"
    /\ Weekday(current_date) >= 5
    /\ current_date' = current_date - 1
    /\ UNCHANGED <<pc, results, args>>
    /\ UNCHANGED <<stock_codes, periods, stock_data, industry_data, futures,
                   fetched_ok, provider_calls, provider, now, rps_cache,
                   last_update, last_call, computed, callers>>

\* the first loop ends on a weekday
EndSkipWeekend ==
    /\ pc = "skip_weekend"
    /\ Weekday(current_date) < 5
    /\ pc' = "collect"
    /\ UNCHANGED <<current_date, results, args>>
    /\ UNCHANGED <<stock_codes, periods, stock_data, industry_data, futures,
                   fetched_ok, provider_calls, provider, now, rps_cache,
                   last_update, last_call, computed, callers>>

\* one round of while len(dates) < days
CollectDate ==
    /\ pc = "collect"
    /\ Len(results) < args.days
    /\ results' = IF IsWeekday(current_date)
                  THEN Append(results, current_date)
                  ELSE results
    /\ current_date' = current_date - 1
    /\ UNCHANGED <<pc, args>>
    /\ UNCHANGED <<stock_codes, periods, stock_data, industry_data, futures,
                   fetched_ok, provider_calls, provider, now, rps_cache,
                   last_update, last_call, computed, callers>>

\* return dates
ReturnDates ==
    /\ pc = "collect"
    /\ Len(results) >= args.days
    /\ pc' = "dates_returned"
    /\ UNCHANGED <<current_date, results, args>>
    /\ UNCHANGED <<stock_codes, periods, stock_data, industry_data, futures,
                   fetched_ok, provider_calls, provider, now, rps_cache,
                   last_update, last_call, computed, callers>>

NextDates == SkipWeekend \/ EndSkipWeekend \/ CollectDate \/ ReturnDates

SpecDates == InitDates /\ [][NextDates]_vars

\* the interpreter runs the next statement of the only thread
DatesProgress ==
    /\ WF_vars(SkipWeekend)
    /\ WF_vars(EndSkipWeekend)
    /\ WF_vars(CollectDate)
    /\ WF_vars(ReturnDates)

SpecDatesLive == InitDates /\ [][NextDates]_vars /\ DatesProgress

(***************************************************************************)
(* Properties of the pipelines (Spec).                                     *)
(***************************************************************************)
Done == pc \in {"stock_done", "industry_done"}

\* the data map the finished pipeline ran on
Data == IF pc = "industry_done" THEN industry_data ELSE stock_data

\* the entities with at least period + 1 closes
HasReturn(data, period) ==
    {data[i][1] : i \in {j \in DOMAIN data : Len(data[j][2]) >= period + 1}}

Percentiles(N) == {Rat((N - i) * 100, N) : i \in 0..(N - 1)}

\* C1: for every requested period, the N entities with a defined return
\* are the keys of the period's percentile map, each once, and the
\* percentiles are the N values (N-i)/N*100, i = 0..N-1, each used once;
\* for _calculate_period_rps ("stock_done") and for
\* _calculate_industry_period_rps ("industry_done") alike.
C1_PercentileBijection ==
    (Done /\ Data # <<>>) =>
        \A k \in DOMAIN periods :
            LET rps == results[RpsKey(periods[k])]
                N == Cardinality(HasReturn(Data, periods[k]))
            IN  /\ Keys(rps) = HasReturn(Data, periods[k])
                /\ Len(rps) = N
                /\ Values(rps) = Percentiles(N)
                /\ Cardinality(Values(rps)) = N

\* C1 witness: a period in which all NumCodes entities are ranked and two
\* of them have equal returns
C1_Witness ==
    /\ pc = "stock_done"
    /\ \E k \in DOMAIN periods :
          LET rets == PeriodReturns(stock_data, periods[k])
          IN  /\ Len(rets) = NumCodes
              /\ Len(results[RpsKey(periods[k])]) = NumCodes
              /\ \E i, j \in DOMAIN rets : i # j /\ rets[i][2] = rets[j][2]

Without(data, code) == SelectSeq(data, LAMBDA e : e[1] # code)

\* C2: an entity with fewer than period + 1 closes has no entry in that
\* period's percentile map, and the map is the one computed from the data
\* without the entity (same N, same percentile for every other entity).
C2_ShortHistoryExcluded ==
    (Done /\ Data # <<>>) =>
        \A k \in DOMAIN periods : \A j \in DOMAIN Data :
            Len(Data[j][2]) < periods[k] + 1 =>
                LET rps == results[RpsKey(periods[k])]
                    rest == Without(Data, Data[j][1])
                IN  /\ ~Has(rps, Data[j][1])
                    /\ Len(rps) = Cardinality(HasReturn(rest, periods[k]))
                    /\ rps = IF pc = "stock_done"
                             THEN CalculatePeriodRps(rest, periods[k])
                             ELSE CalculateIndustryPeriodRps(rest, periods[k])

\* C2 witness: a short entity beside two ranked ones
C2_Witness ==
    /\ pc = "stock_done"
    /\ \E k \in DOMAIN periods :
          /\ \E j \in DOMAIN stock_data :
                Len(stock_data[j][2]) < periods[k] + 1
          /\ Len(results[RpsKey(periods[k])]) >= 2

RECURSIVE SumOver(_, _)
SumOver(S, f) ==
    IF S = {} THEN FromInt(0)
    ELSE LET x == CHOOSE y \in S : TRUE
         IN  RAdd(f[x], SumOver(S \ {x}, f))

\* positions of the requested periods in whose map the entity appears
ScoredAt(code) ==
    {k \in DOMAIN periods : Has(results[RpsKey(periods[k])], code)}

\* C3: the composite of an entity is sum(percentile_p * weight_p) /
\* sum(weight_p) over the requested periods in whose map it appears only;
\* an entity in no requested period's map has no composite.
C3_CompositePresentOnly ==
    (Done /\ Data # <<>>) =>
        /\ DOMAIN results["composite_rps"] \subseteq Keys(Data)
        /\ \A code \in Keys(Data) :
              LET P == ScoredAt(code)
                  w == [k \in P |-> Weight(periods[k], periods)]
                  pw == [k \in P |->
                            RMul(Get(results[RpsKey(periods[k])], code), w[k])]
              IN  IF P = {}
                  THEN code \notin DOMAIN results["composite_rps"]
                  ELSE /\ code \in DOMAIN results["composite_rps"]
                       /\ results["composite_rps"][code]
                            = RDiv(SumOver(P, pw), SumOver(P, w))

\* C3 witness: two periods requested; one entity is ranked in both, one in
\* the short one only with a percentile below 100, one in none
C3_Witness ==
    /\ pc = "stock_done"
    /\ Len(periods) = 2
    /\ \E a, b, c \in Keys(stock_data) :
          /\ Cardinality(ScoredAt(a)) = 2
          /\ Cardinality(ScoredAt(b)) = 1
          /\ results["composite_rps"][b] # FromInt(100)
          /\ ScoredAt(c) = {}
          /\ c \notin DOMAIN results["composite_rps"]

(***************************************************************************)
(* Rotation analysis.                                                      *)
(***************************************************************************)
Rotation == results["rotation_analysis"]
ShortRps == results[RpsKey(periods[1])]
LongRps == results[RpsKey(periods[Len(periods)])]
Compared == Keys(ShortRps) \cap Keys(LongRps)
MomentumOf(code) == RSub(Get(ShortRps, code), Get(LongRps, code))
Industries(list) == {list[i].industry : i \in DOMAIN list}
RotationDone == pc = "industry_done" /\ industry_data # <<>>

\* C8: the rotation records are those of the entities ranked in both the
\* periods[0] map and the periods[-1] map, one each, and a record's
\* momentum is its entity's short percentile minus its long percentile.
\* (hot_industries and cold_industries are the first and the last
\* rotation_top records.)
C8_RotationRecords ==
    RotationDone =>
        LET hot == Rotation.hot_industries
            cold == Rotation.cold_industries
            M == Cardinality(Compared)
        IN  /\ Len(hot) = Min(rotation_top, M)
            /\ Len(cold) = Min(rotation_top, M)
            /\ Cardinality(Industries(hot)) = Len(hot)
            /\ Cardinality(Industries(cold)) = Len(cold)
            /\ Industries(hot) \cup Industries(cold) \subseteq Compared
            /\ M <= rotation_top =>
                  Industries(hot) = Compared /\ Industries(cold) = Compared
            /\ \A r \in Values2(hot) \cup Values2(cold) :
                  /\ r.short_rps = Get(ShortRps, r.industry)
                  /\ r.long_rps = Get(LongRps, r.industry)
                  /\ r.momentum = MomentumOf(r.industry)

\* C8 witness: an entity ranked for the short period only is left out, two
\* others are compared and have momenta other than 0
C8_Witness ==
    /\ RotationDone
    /\ Keys(ShortRps) \ Keys(LongRps) # {}
    /\ Cardinality(Compared) >= 2
    /\ \A r \in Values2(Rotation.hot_industries) : r.momentum # FromInt(0)

NonIncreasing(list) ==
    \A i, j \in DOMAIN list : i < j => ~FLt(list[i].momentum, list[j].momentum)

StrictlyDescending(list) ==
    \A i, j \in DOMAIN list : i < j => FGt(list[i].momentum, list[j].momentum)

StrictlyAscending(list) ==
    \A i, j \in DOMAIN list : i < j => FLt(list[i].momentum, list[j].momentum)

\* C7 as claimed: hot_industries strictly descending by momentum and
\* cold_industries strictly ascending, the most negative momentum first.
C7_AsClaimed ==
    RotationDone =>
        /\ StrictlyDescending(Rotation.hot_industries)
        /\ StrictlyAscending(Rotation.cold_industries)

\* C7 amended: both lists are in non-increasing order of momentum (equal
\* momenta may be adjacent); hot_industries starts with the largest
\* momentum of all compared entities and cold_industries, being the tail
\* of the same descending order, ends with the smallest.
C7_BothDescending ==
    RotationDone =>
        LET hot == Rotation.hot_industries
            cold == Rotation.cold_industries
        IN  /\ NonIncreasing(hot)
            /\ NonIncreasing(cold)
            /\ \A code \in Compared :
                  /\ ~FLt(hot[1].momentum, MomentumOf(code))
                  /\ ~FLt(MomentumOf(code), cold[Len(cold)].momentum)

\* C7 witness: three compared entities, two with equal momenta and one
\* with a smaller one
C7_Witness ==
    /\ RotationDone
    /\ LET cold == Rotation.cold_industries
       IN  /\ Len(cold) >= 3
           /\ cold[1].momentum = cold[2].momentum
           /\ FLt(cold[3].momentum, cold[2].momentum)

(***************************************************************************)
(* Properties of the acquisition (SpecFetch) and the end-to-end scenario   *)
(* (SpecE2E).                                                              *)
(***************************************************************************)
Returned == pc \in {"fetched", "stock_done"}

Distinct(list) == \A i, j \in DOMAIN list : list[i] = list[j] => i = j

\* C9: when _get_stocks_data returns, the keys of the map are exactly the
\* codes for which the provider returned a non-empty frame (an exception,
\* an empty or a malformed answer leaves no entry), each mapped to a frame
\* the provider gave; for distinct codes there is one entry per
\* successful fetch.  Every task has been awaited and the caller holds
\* the map: nothing is raised.
C9_FetchedKeys ==
    Returned =>
        /\ Keys(stock_data) = fetched_ok
        /\ Cardinality(Keys(stock_data)) = Len(stock_data)
        /\ \A i \in DOMAIN stock_data :
              Frame(stock_data[i][2]) \in provider[CleanCode[stock_data[i][1]]]
        /\ Distinct(stock_codes) =>
              Len(stock_data) = Cardinality({i \in DOMAIN futures :
                                                futures[i].result # None})
        /\ Len(futures) = Len(Batch)
        /\ provider_calls = Len(Batch)

\* C9 witness: MaxBatch distinct codes, one fetch failed, the others are in
\* the map, not in list order
C9_Witness ==
    /\ pc = "fetched"
    /\ Len(stock_codes) = MaxBatch
    /\ Distinct(stock_codes)
    /\ Len(stock_data) = MaxBatch - 1
    /\ stock_codes[1] \notin fetched_ok
    /\ stock_data[1][1] = stock_codes[MaxBatch]

E2EExpected == <<100, 80, 60, 40, 20>>

E2ELevels ==
    <<"very strong", "strong", "moderately strong", "neutral", "weak">>

\* C10: in the scenario, whatever order the fetches finish in, rps_5 maps
\* the codes to 100, 80, 60, 40, 20 in list order, the composite scores
\* equal those percentiles and the strength levels are very strong,
\* strong, moderately strong, neutral, weak.
C10_EndToEnd ==
    pc = "stock_done" =>
        /\ DOMAIN results = {"rps_5", "composite_rps", "strength_level"}
        /\ Keys(results["rps_5"]) = Values2(stock_codes)
        /\ DOMAIN results["composite_rps"] = Values2(stock_codes)
        /\ DOMAIN results["strength_level"] = Values2(stock_codes)
        /\ \A k \in DOMAIN stock_codes :
              /\ Get(results["rps_5"], stock_codes[k]) = FromInt(E2EExpected[k])
              /\ results["composite_rps"][stock_codes[k]]
                    = FromInt(E2EExpected[k])
              /\ results["strength_level"][stock_codes[k]] = E2ELevels[k]

\* C10 witness: the call has returned, the fetches having finished in the
\* reverse of the list order
C10_Witness ==
    /\ pc = "stock_done"
    /\ Len(stock_data) = 5
    /\ \A k \in 1..5 : stock_data[k][1] = stock_codes[6 - k]
    /\ \A k \in 1..5 :
          PeriodReturn(stock_data[k][2], 5) = Rat(E2ELast[6 - k] - 100, 100)


(***************************************************************************)
(* Properties of the cache (SpecCache).                                    *)
(***************************************************************************)
\* this step is a call of the entry point op
CallStep(op) == last_call'.n # last_call.n /\ last_call'.op = op

\* this step is such a call, and a call with the same signature computed
\* its payload less than cache_timeout ago
RepeatWithinTtl(op) ==
    /\ CallStep(op)
    /\ last_call'.sig \in DOMAIN computed
    /\ now - computed[last_call'.sig].at < cache_timeout

\* C4: a call of calculate_industry_rps(periods) made less than
\* cache_timeout after a call with the same periods obtained non-empty
\* industry data and returned, returns the payload of that call and leaves
\* the count of provider fetches unchanged.
C4_WithinTtlNoRefetch ==
    [][RepeatWithinTtl("industry") =>
          /\ results' = computed[last_call'.sig].payload
          /\ provider_calls' = provider_calls]_vars

\* a second call served within the timeout while the other key was filled
\* in between
C4_Witness ==
    /\ last_call.op = "industry"
    /\ last_call.hit
    /\ last_call.since > 0
    /\ last_call.since < cache_timeout
    /\ last_call.fetches = 0
    /\ provider_calls = 2 * Len(industry_codes)
    /\ results = computed[last_call.sig].payload
    /\ results # EmptyDict

\* C5: _is_cache_valid(key) is true exactly when an entry exists for key and
\* now - last_update[key] < cache_timeout, whatever the elapsed time is; and
\* a call of calculate_industry_rps made cache_timeout or more after the
\* entry was stored fetches again.
C5_ValidIffFresh ==
    /\ \A ps \in CachePeriodLists :
          IsCacheValid(CacheKey(ps)) <=>
             /\ CacheKey(ps) \in DOMAIN rps_cache
             /\ CacheKey(ps) \in DOMAIN last_update
             /\ now - last_update[CacheKey(ps)] < cache_timeout
    /\ (last_call.op = "industry" /\ last_call.since >= cache_timeout)
          => last_call.fetches > 0

MissStep == CallStep("industry") /\ ~last_call'.hit

Bucket(k) ==
    CASE k >= 90 -> "very strong"
      [] k >= 80 /\ k < 90 -> "strong"
      [] k >= 60 /\ k < 80 -> "moderately strong"
      [] k >= 40 /\ k < 60 -> "neutral"
      [] k >= 20 /\ k < 40 -> "weak"
      [] k < 20 -> "very weak"

\* a score of the grid is an integer
IntOf(score) == score.n \div score.d

StrengthLabels ==
    {"very strong", "strong", "moderately strong", "neutral", "weak",
     "very weak"}

\* C11: _get_single_strength_level maps every score to one of six buckets
\* with inclusive lower bounds 90, 80, 60, 40, 20, and both the
\* strength_level map and the items of get_rps_ranking carry the bucket of
\* the entity's own score.
C11_SixBuckets ==
    /\ \A sc \in ScoreGrid \cup {FromInt(0), FromInt(100), Rat(179, 2),
                                 Rat(199, 10), Inf, NegInf, NaN} :
          GetSingleStrengthLevel(sc) \in StrengthLabels
    /\ pc = "levelled" =>
          /\ DOMAIN results = Keys(args.rps_data)
          /\ \A c \in DOMAIN results :
                results[c] = Bucket(IntOf(Get(args.rps_data, c)))
    /\ pc = "ranked" =>
          \A i \in DOMAIN results :
             results[i].strength_level = Bucket(IntOf(results[i].rps_score))

\* a map whose three scores sit on the bounds 90, 20 and below 20, levelled
C11_Witness ==
    /\ pc = "levelled"
    /\ {results[c] : c \in DOMAIN results} = {"very strong", "weak", "very weak"}
    /\ Values(args.rps_data) = {FromInt(90), FromInt(20), FromInt(10)}

\* C13: for top_n >= 0, get_rps_ranking returns min(top_n, size) items in
\* non-increasing order of score, the item at position i (from 1) has rank
\* i, every item is an entry of the map with its own score and level, and
\* no entity left out has a score greater than a returned one.
C13_RankingTopN ==
    (pc = "ranked" /\ args.top_n >= 0) =>
        /\ Len(results) = Min(args.top_n, Len(args.rps_data))
        /\ \A i \in DOMAIN results :
              /\ results[i].rank = i
              /\ Has(args.rps_data, results[i].code)
              /\ results[i].rps_score = Get(args.rps_data, results[i].code)
              /\ results[i].strength_level =
                    Bucket(IntOf(results[i].rps_score))
        /\ \A i, j \in DOMAIN results :
              i < j => /\ ~FLt(results[i].rps_score, results[j].rps_score)
                       /\ results[i].code # results[j].code
        /\ \A c \in Keys(args.rps_data) \ {results[i].code : i \in DOMAIN results} :
              \A i \in DOMAIN results :
                 ~FGt(Get(args.rps_data, c), results[i].rps_score)

\* three entities given lowest score first, the best two returned
C13_Witness ==
    /\ pc = "ranked"
    /\ args.top_n = 2
    /\ Len(args.rps_data) = 3
    /\ FLt(args.rps_data[1][2], args.rps_data[2][2])
    /\ FLt(args.rps_data[2][2], args.rps_data[3][2])
    /\ Len(results) = 2
    /\ results[1].code = args.rps_data[3][1]
    /\ results[2].code = args.rps_data[2][1]


(***************************************************************************)
(* Ties (SpecFetch): the data map is in the order the fetches completed.   *)
(***************************************************************************)
\* position of the codes of StockUniverse in lexical order
LexRank ==
    ("000001.SZ" :> 1) @@ ("000002.SZ" :> 2) @@ ("300750" :> 3)
    @@ ("600000.SH" :> 4) @@ ("600036.SH" :> 5)

\* the pairs of entities of the first requested period with equal returns
TiedPairs ==
    {pr \in Keys(stock_data) \X Keys(stock_data) :
        /\ LexRank[pr[1]] < LexRank[pr[2]]
        /\ Has(results[RpsKey(periods[1])], pr[1])
        /\ Has(results[RpsKey(periods[1])], pr[2])
        /\ PeriodReturn(Get(stock_data, pr[1]), periods[1])
              = PeriodReturn(Get(stock_data, pr[2]), periods[1])}

\* C14: among entities with equal returns for a period the percentile
\* follows the lexical order of the identifiers (one direction for all
\* tied pairs), whatever the order of the data map.
C14_TiesByIdentifier ==
    (pc = "stock_done" /\ results # EmptyDict) =>
        LET m == results[RpsKey(periods[1])]
        IN  \/ \A pr \in TiedPairs : FGt(Get(m, pr[1]), Get(m, pr[2]))
            \/ \A pr \in TiedPairs : FLt(Get(m, pr[1]), Get(m, pr[2]))


(***************************************************************************)
(* Properties of the rotation signal and of the weights (SpecLong).        *)
(***************************************************************************)
\* the mean momentum of the compared entities, as <<sum, count>>
MomentumSum == SumOver(Compared, [c \in Compared |-> MomentumOf(c)])

\* sum / count > k and sum / count < k on exact fractions
MeanAbove(k) == MomentumSum.n > k * Cardinality(Compared) * MomentumSum.d
MeanBelow(k) == MomentumSum.n < k * Cardinality(Compared) * MomentumSum.d

\* C12: the rotation signal is decided by the mean momentum of all compared
\* entities: above 10 strong_rotation, else above 5 mild_rotation, else
\* below -5 trend_continuation, else neutral; with no compared entity it
\* is neutral and both lists are empty.
C12_RotationSignal ==
    RotationDone =>
        /\ Rotation.rotation_signal =
              IF Compared = {} THEN "neutral"
              ELSE IF MeanAbove(10) THEN "strong_rotation"
              ELSE IF MeanAbove(5) THEN "mild_rotation"
              ELSE IF MeanBelow(-5) THEN "trend_continuation"
              ELSE "neutral"
        /\ Compared = {} =>
              /\ Rotation.hot_industries = <<>>
              /\ Rotation.cold_industries = <<>>

\* a mean between 5 and 10 over two compared entities out of three
C12_Witness ==
    /\ RotationDone
    /\ Cardinality(Compared) = 2
    /\ MeanAbove(5)
    /\ ~MeanAbove(10)
    /\ Rotation.rotation_signal = "mild_rotation"

\* the weight table and the fallback, written out
TableWeight(period) ==
    CASE period = 5 -> Rat(4, 10)
      [] period = 10 -> Rat(3, 10)
      [] period = 20 -> Rat(2, 10)
      [] period = 60 -> Rat(1, 10)
      [] OTHER -> Rat(1, Len(periods))

\* C18: the composite of an entity is the weighted mean of its percentiles
\* with weight 0.4, 0.3, 0.2, 0.1 for the periods 5, 10, 20, 60 and
\* 1 / len(periods) for any other requested period, len(periods) counting
\* every requested period.
C18_WeightTable ==
    (Done /\ Data # <<>>) =>
        \A code \in DOMAIN results["composite_rps"] :
            LET P == ScoredAt(code)
                w == [k \in P |-> TableWeight(periods[k])]
                ws == [k \in P |->
                         RMul(Get(results[RpsKey(periods[k])], code), w[k])]
            IN  RMul(results["composite_rps"][code], SumOver(P, w))
                    = SumOver(P, ws)

\* periods [1, 5, 10]: an entity ranked for 1 and 5 only, with different
\* percentiles, weighs them 1/3 and 0.4
C18_Witness ==
    /\ pc = "stock_done"
    /\ periods = <<1, 5, 10>>
    /\ stock_data # <<>>
    /\ \E code \in DOMAIN results["composite_rps"] :
          /\ ScoredAt(code) = {1, 2}
          /\ Get(results["rps_1"], code) = FromInt(100)
          /\ Get(results["rps_5"], code) = FromInt(50)
          /\ results["composite_rps"][code] = Rat(1600, 22)


(***************************************************************************)
(* Zero anchors (SpecZero) and insufficient history per period (Spec).     *)
(***************************************************************************)
\* C15: an entity whose anchor close for a period is 0 has no entry in the
\* period's percentile map, and the map is the one computed from the data
\* without the entity.
C15_ZeroAnchorExcluded ==
    (Done /\ Data # <<>>) =>
        \A k \in DOMAIN periods : \A j \in DOMAIN Data :
            (/\ Len(Data[j][2]) >= periods[k] + 1
             /\ Data[j][2][Len(Data[j][2]) - periods[k]] = 0) =>
                LET rps == results[RpsKey(periods[k])]
                    rest == Without(Data, Data[j][1])
                IN  /\ ~Has(rps, Data[j][1])
                    /\ rps = IF pc = "stock_done"
                             THEN CalculatePeriodRps(rest, periods[k])
                             ELSE CalculateIndustryPeriodRps(rest, periods[k])

\* C19: for requested periods q < p, every entity of the period-p map is in
\* the period-q map, and an entity with more than q but at most p closes
\* is in the period-q map, not in the period-p map, and has a composite.
C19_PerPeriodHistory ==
    (Done /\ Data # <<>>) =>
        \A k, l \in DOMAIN periods :
            periods[l] < periods[k] =>
                LET rps_p == results[RpsKey(periods[k])]
                    rps_q == results[RpsKey(periods[l])]
                IN  /\ Keys(rps_p) \subseteq Keys(rps_q)
                    /\ \A j \in DOMAIN Data :
                          (/\ Len(Data[j][2]) < periods[k] + 1
                           /\ Len(Data[j][2]) >= periods[l] + 1) =>
                              /\ Has(rps_q, Data[j][1])
                              /\ ~Has(rps_p, Data[j][1])
                              /\ Data[j][1] \in DOMAIN results["composite_rps"]

\* periods [2, 1]: an entity with two closes beside one with three
C19_Witness ==
    /\ pc = "stock_done"
    /\ periods = <<2, 1>>
    /\ \E i, j \in DOMAIN stock_data :
          /\ Len(stock_data[i][2]) = 2
          /\ Len(stock_data[j][2]) = 3
          /\ Has(results["rps_1"], stock_data[i][1])
          /\ ~Has(results["rps_2"], stock_data[i][1])
          /\ Has(results["rps_2"], stock_data[j][1])
          /\ stock_data[i][1] \in DOMAIN results["composite_rps"]


(***************************************************************************)
(* Properties of the cache key (SpecKey).                                  *)
(***************************************************************************)
\* the keyword arguments as a set of (name, value) pairs
Pairs(kw) == {kw[i] : i \in DOMAIN kw}

\* C17: the key of a call is the key of every call with the same function
\* name and the same set of (name, value) pairs, in whatever order the
\* keyword arguments are written.
C17_KeyOrderIndependent ==
    pc = "keyed" =>
        \A kw \in KwargLists(DOMAIN NameRank) :
            Pairs(kw) = Pairs(args.kwargs) =>
                GetCacheKey(args.func_name, kw) = results

\* days written before date: the key has date first
C17_Witness ==
    /\ pc = "keyed"
    /\ args.func_name = "zhangting_data"
    /\ args.kwargs = <<<<"days", 2>>, <<"date", 1>>>>
    /\ results = "zhangting_data_date=1_days=2"


(***************************************************************************)
(* Properties of the worker pool (SpecPool).                               *)
(***************************************************************************)
\* the provider fetches in flight: tasks a worker has taken and not yet
\* returned from
InFlight == {i \in DOMAIN futures : futures[i].state = "running"}

\* C20: at every moment of _get_stocks_data at most max_workers = 10
\* provider fetches are in flight.
C20_AtMostTenInFlight == Cardinality(InFlight) <= 10

\* ten fetches in flight while the eleventh task waits in the queue
C20_Witness ==
    /\ Cardinality(InFlight) = 10
    /\ \E i \in DOMAIN futures : futures[i].state = "queued"


(***************************************************************************)
(* Properties of the entry points under failures (SpecEntry).              *)
(***************************************************************************)
\* the entities of a data map whose frame can be read for the period
Computable(data, period) ==
    {data[i][1] : i \in {j \in DOMAIN data :
                            /\ Len(data[j][2]) >= period + 1
                            /\ data[j][2][Len(data[j][2])] >= 0
                            /\ data[j][2][Len(data[j][2]) - period] >= 0}}

\* C16: no call of calculate_stock_rps, calculate_industry_rps or
\* get_rps_ranking ends in an exception; and whenever the fetch of some
\* identifier succeeded and its returns can be computed, the result is not
\* empty: every period map and the composite map hold exactly the
\* identifiers fetched and computable, whatever happened to the others.
C16_NeverRaises ==
    /\ pc # "raised"
    /\ (pc \in {"stock_done", "industry_done"} /\ periods = <<>>) =>
          results = EmptyDict /\ provider_calls = 0
    /\ (pc \in {"stock_done", "industry_done"} /\ periods # <<>>) =>
          LET data == IF pc = "stock_done" THEN stock_data ELSE industry_data
          IN  /\ Keys(data) = fetched_ok
              /\ fetched_ok = {} <=> results = EmptyDict
              /\ fetched_ok # {} =>
                    /\ \A k \in DOMAIN periods :
                          Keys(results[RpsKey(periods[k])])
                             = Computable(data, periods[k])
                    /\ DOMAIN results["composite_rps"]
                          = Computable(data, periods[1])
    /\ pc = "ranked" => Len(results) <= Len(args.rps_data)

\* three codes: one fetch raised, one frame cannot be read, the third
\* entity is ranked alone
C16_Witness ==
    /\ pc = "stock_done"
    /\ Len(stock_codes) = 3
    /\ Cardinality(fetched_ok) = 2
    /\ \E i \in DOMAIN stock_data : stock_data[i][2] = UnreadableFrame
    /\ \E i \in DOMAIN futures : futures[i].result = None
    /\ Len(results[RpsKey(periods[1])]) = 1
    /\ Cardinality(DOMAIN results["composite_rps"]) = 1


(***************************************************************************)
(* One provider call per submitted identifier (SpecTrunc).                 *)
(***************************************************************************)
\* the tasks whose provider call has been made and has returned or raised
Called == {i \in DOMAIN futures : futures[i].state \in {"finished", "yielded"}}

\* C21: a task is submitted for each of the first 100 entries of the list,
\* in list order, and for no other; each task makes one provider call,
\* whether it fails or not, so the calls made are as many as the tasks
\* that ran; when _get_stocks_data returns every task has run, the calls
\* are min(len, 100), and every code answered with a frame is in the map
\* whatever happened to the codes before it.
C21_OneCallPerIdentifier ==
    /\ Len(futures) <= Min(Len(stock_codes), 100)
    /\ \A i \in DOMAIN futures : futures[i].code = stock_codes[i]
    /\ pc \in {"submitting", "collecting", "fetched"} =>
          provider_calls = Cardinality(Called)
    /\ Returned =>
          /\ Len(futures) = Min(Len(stock_codes), 100)
          /\ Called = DOMAIN futures
          /\ provider_calls = Min(Len(stock_codes), 100)
          /\ Keys(stock_data) = fetched_ok
          /\ \A i \in DOMAIN futures :
                futures[i].result # None => Has(stock_data, futures[i].code)

\* the list of 101 codes: 100 calls, 33 of them failed, 67 entries, the
\* 101st code not fetched
C21_Witness ==
    /\ pc = "fetched"
    /\ Len(stock_codes) = 101
    /\ Len(futures) = 100
    /\ provider_calls = 100
    /\ Cardinality({i \in DOMAIN futures : futures[i].result = None}) = 33
    /\ Len(stock_data) = 67
    /\ ~Has(stock_data, stock_codes[101])
    /\ Has(stock_data, stock_codes[100])

(***************************************************************************)
(* C22: _get_stocks_data returns only when every submitted task has        *)
(* finished and been yielded, it does return when every provider call      *)
(* ends, and the returned map is not changed afterwards.                   *)
(***************************************************************************)
Pending == {i \in DOMAIN futures : futures[i].state # "yielded"}

\* C22: at the return no submitted task is pending and every entry of the
\* batch was submitted; from then on stock_data and the futures stay as
\* they are; a call that started fetching eventually returns
C22_ReturnsAfterAllTasks ==
    /\ [](Returned => Pending = {} /\ Len(futures) = Len(Batch))
    /\ [][Returned => stock_data' = stock_data /\ futures' = futures]_vars
    /\ (pc \in {"submitting", "collecting"}) ~> (pc = "fetched")

C22_Witness ==
    /\ pc = "fetched"
    /\ Len(futures) = MaxBatch
    /\ Pending = {}
    /\ Cardinality({i \in DOMAIN futures : futures[i].result = None}) = 1
    /\ Len(stock_data) = MaxBatch - 1
    /\ futures[1].result = None

(***************************************************************************)
(* C23, C24: two threads in calculate_industry_rps (SpecRace).             *)
(***************************************************************************)
Finished(t) == callers[t].pc = "returned"

Stored(t) == Finished(t) /\ callers[t].wrote > 0

\* the calls of a and b overlapped: each checked the key before the other
\* wrote it
Raced(a, b) ==
    /\ a # b
    /\ Stored(a) /\ Stored(b)
    /\ callers[a].periods = callers[b].periods
    /\ callers[a].saw < callers[b].wrote
    /\ callers[b].saw < callers[a].wrote

LastWriter(a, b) == IF callers[a].wrote > callers[b].wrote THEN a ELSE b

Complete(payload, ps) ==
    DOMAIN payload = {RpsKey(ps[i]) : i \in DOMAIN ps}
                        \cup {"composite_rps", "rotation_analysis"}

Fetching == {t \in Threads : callers[t].pc = "fetch"}

\* C23: every call that misses makes its own fetches; when two calls for
\* one key have both stored and returned, the cached payload is the one of
\* the call that wrote rps_cache last, it is the complete result computed
\* from that call's own data, and each call returned its own result
C23_LastWriteWins ==
    /\ provider_calls =
          Len(industry_codes) * (computed.misses - Cardinality(Fetching))
    /\ \A a, b \in Threads :
          (a # b /\ Stored(a) /\ Stored(b)
               /\ callers[a].periods = callers[b].periods) =>
             LET ps == callers[a].periods
                 last == LastWriter(a, b)
             IN  /\ rps_cache[CacheKey(ps)] = callers[last].payload
                 /\ callers[last].payload =
                       IndustryResults(callers[last].data, ps)
                 /\ Complete(rps_cache[CacheKey(ps)], ps)
                 /\ callers[a].ret = callers[a].payload
                 /\ callers[b].ret = callers[b].payload

C23_Witness ==
    /\ Raced("A", "B")
    /\ callers["A"].wrote < callers["B"].wrote
    /\ callers["A"].payload # callers["B"].payload
    /\ callers["A"].saw = 1 /\ callers["B"].saw = 1
    /\ provider_calls = 3 * Len(industry_codes)
    /\ rps_cache[CacheKey(callers["A"].periods)] = callers["B"].payload

\* C24: the payload and the creation time of an entry come from one call
C24_EntryFromOneCall ==
    \A cache_key \in DOMAIN rps_cache :
        /\ cache_key \in DOMAIN last_update
        /\ computed.payload_by[cache_key] = computed.time_by[cache_key]

(***************************************************************************)
(* C26: the result of calculate_stock_rps and the completion order of the  *)
(* fetch tasks (SpecFetch).                                                *)
(***************************************************************************)
\* the indices of the tasks that returned a frame, in list order
Succeeded ==
    SelectSeq([i \in DOMAIN futures |-> i],
              LAMBDA i : futures[i].result # None)

\* the data map when the tasks are collected in list order
ListOrderData ==
    [k \in DOMAIN Succeeded |->
        <<futures[Succeeded[k]].code, futures[Succeeded[k]].result>>]

\* equality of two results as Python dicts: the same keys with the same
\* values, whatever the insertion order of the per-period maps
SameResults(r1, r2) ==
    /\ DOMAIN r1 = DOMAIN r2
    /\ \A k \in DOMAIN r1 :
          IF k \in {"composite_rps", "strength_level"}
          THEN r1[k] = r2[k]
          ELSE AsFunction(r1[k]) = AsFunction(r2[k])

\* C26: for a list of distinct identifiers and given answers of the
\* provider, the result is the one obtained when the tasks complete in list
\* order, whatever order they completed in
C26_CompletionOrderIrrelevant ==
    (pc = "stock_done" /\ Distinct(stock_codes)) =>
        SameResults(results, StockResults(ListOrderData, periods))

(***************************************************************************)
(* C27, C28: the momenta and the composites as floats (SpecFloat).         *)
(***************************************************************************)
\* the sorted records, rebuilt from the two percentile maps of the result
Opportunities64 ==
    SortByMomentum64[RotationOpportunities64[ShortRps, LongRps]]

\* the exact percentile maps of the short and the long period
ExactShort == CalculateIndustryPeriodRps(industry_data, periods[1])
ExactLong == CalculateIndustryPeriodRps(industry_data, periods[Len(periods)])

\* 2^-30
Tiny == DRound[FALSE, <<1>>, -30, FALSE]

\* C27 as stated: with equal key sets the momenta add up to 0 and the
\* signal is neutral.
C27_AsClaimed ==
    (RotationDone /\ Keys(ShortRps) = Keys(LongRps)) =>
        /\ SumMomentum64[Opportunities64, Len(Opportunities64)] = DZero
        /\ Rotation.rotation_signal = "neutral"

\* C27: when the maps of periods[0] and periods[-1] have the same keys, the
\* exact momenta add up to 0, the mean of the float momenta is 0 up to
\* rounding (below 2^-30 in absolute value) and the signal is neutral
C27_MomentaCancel ==
    (RotationDone /\ Keys(ShortRps) = Keys(LongRps)) =>
        /\ Compared = Keys(ShortRps)
        /\ Keys(ExactShort) = Keys(ExactLong)
        /\ SumOver(Compared,
                   [c \in Compared |->
                       RSub(Get(ExactShort, c), Get(ExactLong, c))])
              = FromInt(0)
        /\ DLt(AvgMomentum64[Opportunities64], Tiny)
        /\ DLt(DNeg[Tiny], AvgMomentum64[Opportunities64])
        /\ Rotation.rotation_signal = "neutral"

\* six entities ranked for two periods in different orders: the float
\* momenta do not add up to 0
C27_Witness ==
    /\ RotationDone
    /\ periods[1] # periods[Len(periods)]
    /\ Keys(ShortRps) = Keys(LongRps)
    /\ Cardinality(Compared) = FloatCodes
    /\ SumMomentum64[Opportunities64, Len(Opportunities64)] # DZero
    /\ Rotation.rotation_signal = "neutral"

RelBits == 48

\* x <= y * (1 + 2^-RelBits), exactly, for positive floats
DLeRel(x, y) ==
    LET em == Min(x.e, y.e)
    IN  BCmp[BShl[x.m, RelBits + x.e - em],
             BShl[BAdd[BShl[y.m, RelBits], y.m], y.e - em]] <= 0

\* the float percentiles of the entity among the requested periods
PercentilesOf(code) ==
    {Get(results[RpsKey(periods[k])], code) : k \in ScoredAt(code)}

AllPercentiles ==
    UNION {{<<Len(results[RpsKey(periods[k])]),
              results[RpsKey(periods[k])][i][2]>> :
               i \in DOMAIN results[RpsKey(periods[k])]} :
           k \in DOMAIN periods}

\* C28 as stated: a composite lies between the smallest and the largest
\* percentile of its entity and in [0, 100], a percentile of a map of N
\* entities in [100/N, 100], and strength_level has the keys of the
\* composite map.
C28_AsClaimed ==
    (Done /\ Data # <<>>) =>
        /\ \A code \in DOMAIN results["composite_rps"] :
              LET composite == results["composite_rps"][code]
              IN  /\ \E p \in PercentilesOf(code) : DLe(p, composite)
                  /\ \E p \in PercentilesOf(code) : DLe(composite, p)
                  /\ DLe(DZero, composite)
                  /\ DLe(composite, DFromInt[100])
        /\ \A np \in AllPercentiles :
              /\ DLe(DDiv[DFromInt[100], DFromInt[np[1]]], np[2])
              /\ DLe(np[2], DFromInt[100])
        /\ pc = "stock_done" =>
              DOMAIN results["strength_level"]
                 = DOMAIN results["composite_rps"]

\* C28: the same bounds up to the rounding of the float operations: a
\* composite is at most a factor 1 + 2^-RelBits outside the range of its
\* entity's percentiles and of (0, 100], a percentile of a map of N
\* entities is in (0, 100] and at most that factor below 100/N, and
\* strength_level has the keys of the composite map.
C28_BoundsUpToRounding ==
    (Done /\ Data # <<>>) =>
        /\ \A code \in DOMAIN results["composite_rps"] :
              LET composite == results["composite_rps"][code]
              IN  /\ \E p \in PercentilesOf(code) : DLeRel(p, composite)
                  /\ \E p \in PercentilesOf(code) : DLeRel(composite, p)
                  /\ DGt(composite, DZero)
                  /\ DLeRel(composite, DFromInt[100])
        /\ \A np \in AllPercentiles :
              /\ DLeRel(DDiv[DFromInt[100], DFromInt[np[1]]], np[2])
              /\ DGt(np[2], DZero)
              /\ DLe(np[2], DFromInt[100])
        /\ pc = "stock_done" =>
              DOMAIN results["strength_level"]
                 = DOMAIN results["composite_rps"]

\* an entity that is first for each of three periods with equal weights:
\* its composite is below 100, the only percentile it has
C28_Witness ==
    /\ pc = "stock_done"
    /\ stock_data # <<>>
    /\ Len(periods) = 3
    /\ \E code \in DOMAIN results["composite_rps"] :
          /\ Cardinality(ScoredAt(code)) = 3
          /\ PercentilesOf(code) = {DFromInt[100]}
          /\ DLt(results["composite_rps"][code], DFromInt[100])
          /\ results["strength_level"][code] = "very strong"

(***************************************************************************)
(* C29: the hot and the cold list (Spec).                                  *)
(***************************************************************************)
\* C29: no entity is in both hot_industries and cold_industries, and each
\* list has min(5, M) records, M the number of compared entities
C29_HotColdDisjoint ==
    RotationDone =>
        /\ Industries(Rotation.hot_industries)
              \cap Industries(Rotation.cold_industries) = {}
        /\ Len(Rotation.hot_industries)
              = Min(rotation_top, Cardinality(Compared))
        /\ Len(Rotation.cold_industries)
              = Min(rotation_top, Cardinality(Compared))

(***************************************************************************)
(* C30: the fallback dates (SpecDatesLive).                                *)
(***************************************************************************)
DatesReturned == pc = "dates_returned"

\* today when it is a weekday, otherwise the latest weekday before it
LatestWeekday(today) ==
    CHOOSE d \in (today - 2)..today :
        /\ Weekday(d) \notin {5, 6}
        /\ \A later \in (d + 1)..today : Weekday(later) \in {5, 6}

====
